---- MODULE Spec2Model ----
(***************************************************************************)
(* A model of the StoryWeaver document pipeline and its rate limiter:      *)
(*   - PDFGenerator.compile_pdf          (src/models/pdf_generator.py)     *)
(*   - the legacy PDFGenerator.compile_pdf of src/app.py                   *)
(*   - RateLimiter and the generation calls (src/models/ai_service.py)     *)
(*   - the template fill of generate_latex_from_project                    *)
(*   - DatabaseManager, the content store   (src/models/database.py)       *)
(*   - the document assembler and create_audiobook_companion               *)
(***************************************************************************)
EXTENDS Integers, Sequences, FiniteSets, TLC

VARIABLES
    \* ---- PDFGenerator.compile_pdf, one invocation at a time ----
    pc,               \* Idle, Compiling1, Compiling2, Succeeded, Failed, Raised
    compile_twice,    \* the compile_twice argument of the current call
    output_filename,  \* the output_filename argument of the current call
    temp_exists,      \* the TemporaryDirectory of the current call exists
    temp_files,       \* the files inside it
    output_dir,       \* self.output_dir: file name -> artifact
    result1,          \* CompletedProcess of the first pass
    result2,          \* CompletedProcess of the second pass
    passes,           \* compiler invocations made by the current call
    ret,              \* the (path, error) pair returned
    calls,            \* compile_pdf calls made so far
    out_before,       \* output_dir when the current call started
    temp_created,     \* the current call created a temporary directory
    probe,            \* what the --version probe of the current call met
    ending,           \* how the current call ended (which exit path)
    \* ---- concurrent render requests sharing the export directory ----
    req_pc,           \* request -> idle, pass1, pass2, finish, done
    req_impl,         \* request -> which compile_pdf serves it: "models" or "app"
    req_name,         \* request -> output file name (the project)
    req_twice,        \* request -> compile_twice
    req_rc,           \* request -> return code of its last compiler pass
    exports,          \* shared export directory: <<name, ext>> -> writer (0: no file)
    tmp,              \* temporary directories: <<request, ext>> -> writer (0: no file)
    req_foreign,      \* request -> it read, overwrote or deleted another's working file
    \* ---- RateLimiter and the generation calls, sequential use ----
    now,              \* the clock time.time() reads
    requests,         \* category -> RateLimiter.requests, the recorded timestamps
    gen_pc,           \* idle, or calling: a provider call is in flight
    gen_cat,          \* the category of the call in flight
    watch,            \* the category whose provider calls are being counted
    issued,           \* issue times of its provider calls still in the window
    last,             \* the admission check just made: inputs, clock reads, answer
    \* ---- the template fill of generate_latex_from_project ----
    latex_template,   \* template['latex_template'], a string of characters
    template_vars,    \* the variables handed to str.format
    fill_pc,          \* ready, done
    filled,           \* the (latex_code, error) pair returned
    \* ---- DatabaseManager: the rows of storyweaver.db ----
    projects,         \* projects table: id -> row
    content,          \* content table: id -> row
    db_now,           \* CURRENT_TIMESTAMP, in whole seconds
    store_op,         \* the store operation just made: name, target, arguments
    store_ret,        \* what it returned
    \* ---- generate_latex_from_project and create_audiobook_companion ----
    asm_pc,           \* ready, done
    asm_args,         \* the arguments of the call just made
    content_items,    \* what get_project_content returned to it
    latex_sections,   \* what _build_content_sections returned
    gen_ret,          \* the (result, error) pair returned, or the exception raised
    \* ---- _clean_text_for_latex applied to one text ----
    clean_pc,         \* ready, done
    clean_in,         \* the text argument
    clean_out,        \* what it returned
    \* ---- the create_book route of src/app.py ----
    book_pc,          \* idle, scenes, or how the request ended
    book_project,     \* the id create_project returned
    book_data,        \* the request's generate_audio flag, the scenes of story_data
    book_i,           \* the scene the loop is at
    image_made,       \* scene -> generate_image returned image data for it
    generated,        \* the files written to GENERATED_FOLDER
    \* ---- batch_generate_images: generate_image on a thread pool ----
    task_pc,          \* prompt -> where its generate_single task stands
    task_list,        \* prompt -> the pruned list its can_make_request has built
    task_out,         \* prompt -> what its generate_image call came to
    out_of_order,     \* a call completed after the call for a later prompt had
    batch_ret,        \* the list batch_generate_images returned
    appended          \* every timestamp add_request has appended

compileVars == <<pc, compile_twice, output_filename, temp_exists, temp_files,
                 output_dir, result1, result2, passes, ret, calls, out_before,
                 temp_created, probe, ending>>

sharedVars == <<req_pc, req_impl, req_name, req_twice, req_rc, exports, tmp,
                req_foreign>>

limiterVars == <<now, requests, gen_pc, gen_cat, watch, issued, last>>

fillVars == <<latex_template, template_vars, fill_pc, filled>>

storeVars == <<projects, content, db_now, store_op, store_ret>>

asmVars == <<asm_pc, asm_args, content_items, latex_sections, gen_ret>>

cleanVars == <<clean_pc, clean_in, clean_out>>

bookVars == <<book_pc, book_project, book_data, book_i, image_made, generated>>

batchVars == <<task_pc, task_list, task_out, out_of_order, batch_ret, appended>>

vars == <<compileVars, sharedVars, limiterVars, fillVars, storeVars, asmVars,
          cleanVars, bookVars, batchVars>>

\* what the steps of one component leave alone
notCompile == <<sharedVars, limiterVars, fillVars, storeVars, asmVars,
                cleanVars, bookVars, batchVars>>
notShared == <<compileVars, limiterVars, fillVars, storeVars, asmVars,
               cleanVars, bookVars, batchVars>>
notLimiter == <<compileVars, sharedVars, fillVars, storeVars, asmVars,
                cleanVars, bookVars, batchVars>>
notFill == <<compileVars, sharedVars, limiterVars, storeVars, asmVars,
             cleanVars, bookVars, batchVars>>
notStore == <<compileVars, sharedVars, limiterVars, fillVars, asmVars,
              cleanVars, bookVars, batchVars>>
notAsm == <<compileVars, sharedVars, limiterVars, fillVars, storeVars,
            cleanVars, bookVars, batchVars>>
notClean == <<compileVars, sharedVars, limiterVars, fillVars, storeVars, asmVars,
              bookVars, batchVars>>
notBook == <<compileVars, sharedVars, limiterVars, fillVars, asmVars,
             cleanVars, batchVars>>
notBatch == <<compileVars, sharedVars, fillVars, storeVars, asmVars,
              cleanVars, bookVars>>

----------------------------------------------------------------------------
(* Bounds of the model *)

\* compile_pdf calls explored in one behaviour
MaxCalls == 2

\* render requests in flight at the same time
NumRequests == 2

\* the clock stops here
MaxTime == 90

\* max_requests of the three limiters, scaled down from 20, 50 and 10
ImageMaxRequests == 2
TextMaxRequests == 1
AudioMaxRequests == 1

\* characters in a template body
MaxTemplateLen == 4

\* characters in a text handed to _clean_text_for_latex
MaxTextLen == 3

\* scenes in the story_data the provider returns (the route asks for 10 to 20)
MaxScenes == 3

\* prompts handed to batch_generate_images
NumPrompts == 3

\* max_concurrent of batch_generate_images, scaled down from 3
MaxConcurrent == 2

\* seconds the database clock advances
MaxClock == 1

\* content rows in a drawn store
MaxItems == 2

----------------------------------------------------------------------------
(* PDFGenerator.compile_pdf (src/models/pdf_generator.py) *)

\* output file names the callers may pass
Filenames == {"project_a", "project_b"}

\* f"{output_filename}_audiobook", the name create_audiobook_companion compiles to
AudiobookName(name) == name \o "_audiobook"

\* every name compile_pdf is called with
OutputNames == Filenames \cup {AudiobookName(name) : name \in Filenames}

\* f"{output_filename}.pdf" inside self.output_dir
OutputPath(name) == <<"static/exports", name, ".pdf">>

NoPath == <<>>

\* an artifact slot of the output directory
Absent == [state |-> "absent", gen |-> 0]
Complete(n) == [state |-> "complete", gen |-> n]
Partial(n) == [state |-> "partial", gen |-> n]

\* subprocess.run results: the return code, the two captured streams, and
\* whether the pass wrote document.pdf
NoResult == [returncode |-> -1, stderr |-> "", stdout |-> "", pdf |-> FALSE]
CompilerResults ==
    [returncode : {0, 1}, stderr : {"", "! Undefined control sequence."},
     stdout : {"", "This is pdfTeX"}, pdf : BOOLEAN]

\* what subprocess.run of one pass can do
PassOutcomes == {"completed", "timeout", "oserror"}

\* what the --version probe can meet
ProbeOutcomes == {"ok", "nonzero", "missing", "not_executable"}

\* the (path, error) pairs; error None is kind "None"
NoError == [kind |-> "None", log |-> ""]
ToolchainUnavailable == [kind |-> "LaTeX is not installed or not accessible", log |-> ""]
CompilationFailed(error_log) == [kind |-> "LaTeX compilation failed:\n", log |-> error_log]
CompilationTimeout == [kind |-> "LaTeX compilation timeout", log |-> ""]
GenerationError == [kind |-> "PDF generation error: ", log |-> ""]
NoReturn == [path |-> NoPath, error |-> [kind |-> "(no return)", log |-> ""]]

\* check_latex_installation: True / False, or the exception that escapes it
\* (only FileNotFoundError is caught)
check_latex_installation(p) ==
    CASE p = "ok" -> "True"
      [] p = "nonzero" -> "False"
      [] p = "missing" -> "False"
      [] p = "not_executable" -> "PermissionError"

\* the second compilation is run "if compile_twice and result1.returncode == 0"
SecondPassSkipsExitCheck(twice, r1) == twice
SecondPassRuns(twice, r1) == twice /\ r1.returncode = 0

\* the except clauses of compile_pdf: which error an exception becomes
HandlerWithoutTimeoutClause(exc) == GenerationError
ExceptionError(exc) ==
    IF exc = "TimeoutExpired" THEN CompilationTimeout ELSE GenerationError

\* "with tempfile.TemporaryDirectory() as temp_dir": the directory is removed
\* when the block is left, whatever the exit path
CleanupOnSuccessOnly(exit_path) == exit_path = "copied"
TemporaryDirectoryRemoved(exit_path) == TRUE

\* error_log = final_result.stderr or final_result.stdout
ErrorLogStdoutFirst(r) == IF r.stdout # "" THEN r.stdout ELSE r.stderr
ErrorLog(r) == IF r.stderr # "" THEN r.stderr ELSE r.stdout

\* shutil.copy2(pdf_file, output_path): copyfile opens the destination for
\* writing (truncating it), writes the bytes, then copystat copies the metadata
CopyOutcomes == {"ok", "open_failed", "write_failed", "copystat_failed"}

CopyResult(dir, name, n, c) ==
    CASE c = "ok" -> [dir EXCEPT ![name] = Complete(n)]
      [] c = "open_failed" -> dir
      [] c = "write_failed" -> [dir EXCEPT ![name] = Partial(n)]
      [] c = "copystat_failed" -> [dir EXCEPT ![name] = Complete(n)]

\* files a compiler pass leaves in its -output-directory
PassFiles(r) ==
    {"document.aux", "document.log"} \cup (IF r.pdf THEN {"document.pdf"} ELSE {})

\* lines 243-253: the final result decides; on success the PDF is copied
Finish(final_result, files) ==
    IF final_result.returncode = 0 /\ "document.pdf" \in files
    THEN \E c \in CopyOutcomes :
           /\ output_dir' = CopyResult(output_dir, output_filename, calls, c)
           /\ IF c = "ok"
              THEN /\ pc' = "Succeeded"
                   /\ ret' = [path |-> OutputPath(output_filename), error |-> NoError]
                   /\ ending' = "copied"
              ELSE /\ pc' = "Failed"
                   /\ ret' = [path |-> NoPath, error |-> ExceptionError("OSError")]
                   /\ ending' = "copy_raised"
           /\ temp_exists' = (temp_exists /\ ~TemporaryDirectoryRemoved(ending'))
           /\ temp_files' = IF TemporaryDirectoryRemoved(ending') THEN {} ELSE files
    ELSE /\ pc' = "Failed"
         /\ ret' = [path |-> NoPath, error |-> CompilationFailed(ErrorLog(final_result))]
         /\ ending' = "compilation_failed"
         /\ temp_exists' = (temp_exists /\ ~TemporaryDirectoryRemoved("compilation_failed"))
         /\ temp_files' = IF TemporaryDirectoryRemoved("compilation_failed") THEN {} ELSE files
         /\ UNCHANGED output_dir

\* an exception inside the try block of compile_pdf
Raise(exc, files) ==
    /\ pc' = "Failed"
    /\ ret' = [path |-> NoPath, error |-> ExceptionError(exc)]
    /\ ending' = exc
    /\ temp_exists' = (temp_exists /\ ~TemporaryDirectoryRemoved(exc))
    /\ temp_files' = IF TemporaryDirectoryRemoved(exc) THEN {} ELSE files
    /\ UNCHANGED output_dir

Terminal == {"Succeeded", "Failed", "Raised"}

\* lines 212-221: the probe, the temporary directory, document.tex
compile_pdf(name, twice, p, written) ==
    /\ pc \in {"Idle"} \cup Terminal
    /\ calls < MaxCalls
    /\ calls' = calls + 1
    /\ compile_twice' = twice
    /\ output_filename' = name
    /\ out_before' = output_dir
    /\ probe' = p
    /\ result1' = NoResult
    /\ result2' = NoResult
    /\ passes' = 0
    /\ UNCHANGED output_dir
    /\ CASE check_latex_installation(p) = "False" ->
              /\ pc' = "Failed"
              /\ ret' = [path |-> NoPath, error |-> ToolchainUnavailable]
              /\ ending' = "toolchain_unavailable"
              /\ temp_created' = FALSE
              /\ temp_exists' = FALSE
              /\ temp_files' = {}
         [] check_latex_installation(p) = "PermissionError" ->
              /\ pc' = "Raised"
              /\ ret' = NoReturn
              /\ ending' = "probe_raised"
              /\ temp_created' = FALSE
              /\ temp_exists' = FALSE
              /\ temp_files' = {}
         [] check_latex_installation(p) = "True" ->
              /\ temp_created' = TRUE
              /\ IF written
                 THEN /\ pc' = "Compiling1"
                      /\ ret' = NoReturn
                      /\ ending' = "running"
                      /\ temp_exists' = TRUE
                      /\ temp_files' = {"document.tex"}
                 ELSE /\ pc' = "Failed"
                      /\ ret' = [path |-> NoPath, error |-> ExceptionError("OSError")]
                      /\ ending' = "OSError"
                      /\ temp_exists' = ~TemporaryDirectoryRemoved("OSError")
                      /\ temp_files' = {}

\* compile_pdf called on its own
CompilePdf(name, twice, p, written) ==
    /\ UNCHANGED notCompile
    /\ compile_pdf(name, twice, p, written)

\* lines 224-241: the first compilation
FirstPass(o, r) ==
    /\ UNCHANGED notCompile
    /\ pc = "Compiling1"
    /\ passes' = passes + 1
    /\ UNCHANGED <<compile_twice, output_filename, calls, out_before,
                   temp_created, probe, result2>>
    /\ IF o = "completed"
       THEN /\ result1' = r
            /\ IF SecondPassRuns(compile_twice, r)
               THEN /\ pc' = "Compiling2"
                    /\ temp_files' = temp_files \cup PassFiles(r)
                    /\ UNCHANGED <<output_dir, ret, temp_exists, ending>>
               ELSE Finish(r, temp_files \cup PassFiles(r))
       ELSE /\ result1' = NoResult
            /\ Raise(IF o = "timeout" THEN "TimeoutExpired" ELSE "OSError",
                     temp_files \cup {"document.log"})

\* lines 233-239: the second compilation; its result is the final one
SecondPass(o, r) ==
    /\ UNCHANGED notCompile
    /\ pc = "Compiling2"
    /\ passes' = passes + 1
    /\ UNCHANGED <<compile_twice, output_filename, calls, out_before,
                   temp_created, probe, result1>>
    /\ IF o = "completed"
       THEN /\ result2' = r
            /\ Finish(r, temp_files \cup PassFiles(r))
       ELSE /\ result2' = NoResult
            /\ Raise(IF o = "timeout" THEN "TimeoutExpired" ELSE "OSError",
                     temp_files \cup {"document.log"})

----------------------------------------------------------------------------
(* Concurrent render requests: both compile_pdf implementations on one disk *)

Requests == 1 .. NumRequests
Exts == {"tex", "aux", "log", "pdf"}
WorkExts == {"tex", "aux", "log"}

\* the file is another request's
Foreign(p, owner) == owner # 0 /\ owner # p

\* models/pdf_generator.py 216-221 and app.py 279-283: where the markup goes
Begin(p, impl, name, twice) ==
    /\ UNCHANGED notShared
    /\ req_pc[p] = "idle"
    /\ req_impl' = [req_impl EXCEPT ![p] = impl]
    /\ req_name' = [req_name EXCEPT ![p] = name]
    /\ req_twice' = [req_twice EXCEPT ![p] = twice]
    /\ req_pc' = [req_pc EXCEPT ![p] = "pass1"]
    /\ IF impl = "models"
       THEN \* a fresh TemporaryDirectory, document.tex inside it
            /\ tmp' = [tmp EXCEPT ![<<p, "tex">>] = p]
            /\ UNCHANGED <<exports, req_foreign>>
       ELSE \* open(f"{output_filename}.tex", 'w') in the export directory
            /\ exports' = [exports EXCEPT ![<<name, "tex">>] = p]
            /\ req_foreign' = [req_foreign EXCEPT
                                 ![p] = @ \/ Foreign(p, exports[<<name, "tex">>])]
            /\ UNCHANGED tmp
    /\ UNCHANGED req_rc

\* one compiler pass: reads the .tex, writes .aux, .log and (maybe) .pdf into
\* its -output-directory
Pass(p, rc, pdf) ==
    /\ UNCHANGED notShared
    /\ req_pc[p] \in {"pass1", "pass2"}
    /\ IF req_impl[p] = "models"
       THEN /\ tmp' = [f \in Requests \X Exts |->
                         IF f[1] = p /\ (f[2] \in {"aux", "log"} \/ (f[2] = "pdf" /\ pdf))
                         THEN p ELSE tmp[f]]
            /\ req_rc' = [req_rc EXCEPT ![p] = rc]
            /\ req_pc' = [req_pc EXCEPT ![p] =
                   IF req_pc[p] = "pass1" /\ SecondPassRuns(req_twice[p], [returncode |-> rc])
                   THEN "pass2" ELSE "finish"]
            /\ UNCHANGED <<exports, req_foreign>>
       ELSE LET n == req_name[p]
                src == exports[<<n, "tex">>]
                \* a missing source file makes the pass fail without a PDF
                code == IF src = 0 THEN 1 ELSE rc
                out == src # 0 /\ pdf
            IN /\ exports' = [f \in Filenames \X Exts |->
                                IF f[1] = n /\ (f[2] \in {"aux", "log"} \/ (f[2] = "pdf" /\ out))
                                THEN p ELSE exports[f]]
               /\ req_rc' = [req_rc EXCEPT ![p] = code]
               /\ req_foreign' = [req_foreign EXCEPT ![p] =
                      @ \/ Foreign(p, src) \/ Foreign(p, exports[<<n, "aux">>])
                        \/ Foreign(p, exports[<<n, "log">>])]
               /\ req_pc' = [req_pc EXCEPT ![p] = "finish"]
               /\ UNCHANGED tmp
    /\ UNCHANGED <<req_impl, req_name, req_twice>>

\* models/pdf_generator.py 243-253 with the exit of the with-block, and
\* app.py 293-302
End(p) ==
    /\ UNCHANGED notShared
    /\ req_pc[p] = "finish"
    /\ req_pc' = [req_pc EXCEPT ![p] = "done"]
    /\ IF req_impl[p] = "models"
       THEN /\ exports' = IF req_rc[p] = 0 /\ tmp[<<p, "pdf">>] # 0
                          THEN [exports EXCEPT ![<<req_name[p], "pdf">>] = p]
                          ELSE exports
            /\ tmp' = [f \in Requests \X Exts |-> IF f[1] = p THEN 0 ELSE tmp[f]]
            /\ UNCHANGED req_foreign
       ELSE LET n == req_name[p]
            IN IF req_rc[p] = 0 /\ exports[<<n, "pdf">>] # 0
               THEN \* for ext in ['.aux', '.log', '.tex']: os.remove
                    /\ exports' = [f \in Filenames \X Exts |->
                                     IF f[1] = n /\ f[2] \in WorkExts THEN 0 ELSE exports[f]]
                    /\ req_foreign' = [req_foreign EXCEPT ![p] =
                           @ \/ \E e \in WorkExts : Foreign(p, exports[<<n, e>>])]
                    /\ UNCHANGED tmp
               ELSE UNCHANGED <<exports, tmp, req_foreign>>
    /\ UNCHANGED <<req_impl, req_name, req_twice, req_rc>>

NextShared ==
    \/ \E p \in Requests, impl \in {"models", "app"}, name \in Filenames, twice \in BOOLEAN :
          Begin(p, impl, name, twice)
    \/ \E p \in Requests, rc \in {0, 1}, pdf \in BOOLEAN : Pass(p, rc, pdf)
    \/ \E p \in Requests : End(p)

----------------------------------------------------------------------------
(* RateLimiter and the generation calls (src/models/ai_service.py) *)

Categories == {"image", "text", "audio"}

\* RateLimiter(max_requests=..., time_window=60) of AIService.__init__
TimeWindow == 60

max_requests(c) ==
    CASE c = "image" -> ImageMaxRequests
      [] c = "text" -> TextMaxRequests
      [] c = "audio" -> AudioMaxRequests

\* the clock advances by these amounts, between calls and inside them
Steps == {TimeWindow \div 2}
Delays == {0} \cup Steps

RECURSIVE SeqMin(_)
SeqMin(q) ==
    IF Len(q) = 1 THEN q[1]
    ELSE IF q[1] <= SeqMin(Tail(q)) THEN q[1] ELSE SeqMin(Tail(q))

\* "now - req_time < self.time_window": the timestamp is still in the window
KeptInclusive(t, req_time) == t - req_time <= TimeWindow
Kept(t, req_time) == t - req_time < TimeWindow

\* can_make_request, line 27: the list after the prune at clock reading t
Pruned(reqs, t) == SelectSeq(reqs, LAMBDA req_time : Kept(t, req_time))

\* can_make_request, line 29
can_make_request(reqs, t, c) == Len(Pruned(reqs, t)) < max_requests(c)

\* time_until_next_request on list reqs: the inner can_make_request reads the
\* clock at t2, line 41 reads it again at t3
time_until_next_request(reqs, t2, t3, c) ==
    IF can_make_request(reqs, t2, c) THEN 0
    ELSE TimeWindow - (t3 - SeqMin(Pruned(reqs, t2)))

\* the error messages of the rejected requests: generate_image and
\* generate_audio_narration format int(wait_time) into theirs,
\* generate_story_structure returns a fixed text
NoSeconds == [present |-> FALSE, value |-> 0]
Seconds(n) == [present |-> TRUE, value |-> n]

RateLimitError(c, reqs, t2, t3) ==
    CASE c = "image" ->
           [kind |-> "Image generation rate limit exceeded. Try again in",
            seconds |-> Seconds(time_until_next_request(reqs, t2, t3, c))]
      [] c = "audio" ->
           [kind |-> "Audio generation rate limit exceeded. Try again in",
            seconds |-> Seconds(time_until_next_request(reqs, t2, t3, c))]
      [] c = "text" ->
           [kind |-> "Text generation rate limit exceeded", seconds |-> NoSeconds]

\* the list a rejected request leaves behind: nothing is appended;
\* generate_image and generate_audio_narration go on to
\* time_until_next_request, whose can_make_request prunes once more at t2
RejectedAndRecorded(c, reqs, t2) == Append(reqs, t2)
Rejected(c, reqs, t2) == IF c = "text" THEN reqs ELSE Pruned(reqs, t2)

NoLimitError == [kind |-> "None", seconds |-> NoSeconds]
KeyError_ElevenLabs == [kind |-> "ElevenLabs API key not configured", seconds |-> NoSeconds]

NoCheck == [cat |-> "none", before |-> <<>>, t1 |-> 0, t2 |-> 0, t3 |-> 0,
            admitted |-> FALSE, called |-> FALSE, error |-> NoLimitError]

\* the watched provider calls issued in the window that ends at t
IssuedInWindow(t) == SelectSeq(issued, LAMBDA i : t - i < TimeWindow)

\* generate_image 161-166, generate_story_structure 74-75,
\* generate_audio_narration 325-330: the admission check of a request of
\* category c; d1 and d2 are the time that passes before the second and the
\* third reading of the clock on the rejected path
GenerateRequest(c, key, d1, d2) ==
    /\ UNCHANGED notLimiter
    /\ gen_pc = "idle"
    /\ now + d1 + d2 <= MaxTime
    /\ Len(IssuedInWindow(now)) <= max_requests(watch)
    /\ UNCHANGED watch
    /\ LET t1 == now
           t2 == now + d1
           t3 == now + d1 + d2
           admitted == can_make_request(requests[c], t1, c)
           after1 == Pruned(requests[c], t1)
       IN IF admitted
          THEN /\ requests' = [requests EXCEPT ![c] = after1]
               /\ d1 = 0 /\ d2 = 0
               /\ UNCHANGED now
               /\ IF c = "audio" /\ ~key
                  THEN /\ last' = [cat |-> c, before |-> requests[c], t1 |-> t1, t2 |-> t1,
                                   t3 |-> t1, admitted |-> TRUE, called |-> FALSE,
                                   error |-> KeyError_ElevenLabs]
                       /\ UNCHANGED <<gen_pc, gen_cat, issued>>
                  ELSE /\ last' = [cat |-> c, before |-> requests[c], t1 |-> t1, t2 |-> t1,
                                   t3 |-> t1, admitted |-> TRUE, called |-> TRUE,
                                   error |-> NoLimitError]
                       /\ gen_pc' = "calling"
                       /\ gen_cat' = c
                       /\ issued' = IF c = watch THEN Append(IssuedInWindow(t1), t1)
                                    ELSE IssuedInWindow(t1)
          ELSE /\ (c = "text") => (d1 = 0 /\ d2 = 0)
               /\ requests' = [requests EXCEPT ![c] = Rejected(c, after1, t2)]
               /\ now' = t3
               /\ last' = [cat |-> c, before |-> requests[c], t1 |-> t1, t2 |-> t2,
                           t3 |-> t3, admitted |-> FALSE, called |-> FALSE,
                           error |-> RateLimitError(c, after1, t2, t3)]
               /\ issued' = IssuedInWindow(t3)
               /\ UNCHANGED <<gen_pc, gen_cat>>

\* the provider call comes back after d seconds: with a response ("result",
\* or "empty" when it holds nothing usable), after which add_request records
\* time.time(), or with an exception, which skips add_request
ProviderReturns(outcome, d) ==
    /\ UNCHANGED notLimiter
    /\ gen_pc = "calling"
    /\ now + d <= MaxTime
    /\ now' = now + d
    /\ gen_pc' = "idle"
    /\ requests' = IF outcome = "raises" THEN requests
                   ELSE [requests EXCEPT ![gen_cat] = Append(@, now + d)]
    /\ last' = NoCheck
    /\ gen_cat' = "none"
    /\ issued' = IssuedInWindow(now + d)
    /\ UNCHANGED watch

\* time passes between two requests
Tick(d) ==
    /\ UNCHANGED notLimiter
    /\ gen_pc = "idle"
    /\ now + d <= MaxTime
    /\ now' = now + d
    /\ last' = NoCheck
    /\ issued' = IssuedInWindow(now + d)
    /\ UNCHANGED <<requests, gen_pc, gen_cat, watch>>

\* AIService.__init__: three empty limiters
InitLimiterWatching(c) ==
    /\ now = 0
    /\ requests = [k \in Categories |-> <<>>]
    /\ gen_pc = "idle"
    /\ gen_cat = "none"
    /\ watch = c
    /\ issued = <<>>
    /\ last = NoCheck

InitLimiter == InitLimiterWatching("image")

NextLimiter ==
    \/ \E c \in Categories, key \in BOOLEAN, d1 \in Delays, d2 \in Delays :
          GenerateRequest(c, key, d1, d2)
    \/ \E outcome \in {"result", "empty", "raises"}, d \in Delays : ProviderReturns(outcome, d)
    \/ \E d \in Steps : Tick(d)

----------------------------------------------------------------------------
(* The template fill, generate_latex_from_project lines 52-67 *)

\* the characters of a template: the two braces, the one-letter names of
\* title, author, date and content, and a letter that names no variable
TemplateChars == {"{", "}", "t", "a", "d", "c", "x"}

Templates == UNION {[1 .. n -> TemplateChars] : n \in 0 .. MaxTemplateLen}

\* the values a caller supplies for the title: plain text, or text that looks
\* like a placeholder
TitleValues == {<<"T">>, <<"{", "c", "}">>}

\* template_vars, lines 53-58
TemplateVars(title) ==
    (<<"t">> :> title) @@ (<<"a">> :> <<"A">>) @@ (<<"d">> :> <<"D">>)
        @@ (<<"c">> :> <<"C">>)

\* the position of the first brace of s at or after i, 0 when there is none
RECURSIVE NextBrace(_, _)
NextBrace(s, i) ==
    IF i > Len(s) THEN 0
    ELSE IF s[i] \in {"{", "}"} THEN i
    ELSE NextBrace(s, i + 1)

\* the lookup of a replacement field in the keyword arguments
FieldValueBlank(variables, name) ==
    [found |-> TRUE,
     value |-> IF name \in DOMAIN variables THEN variables[name] ELSE <<>>]
FieldValue(variables, name) ==
    IF name \in DOMAIN variables
    THEN [found |-> TRUE, value |-> variables[name]]
    ELSE [found |-> FALSE, value |-> <<>>]

\* str.format(**variables), scanning s from position i with out already
\* produced: doubled braces are literal braces, {name} is replaced by the
\* value of name, and the first problem met raises
RECURSIVE FormatFrom(_, _, _, _)
FormatFrom(s, variables, i, out) ==
    IF i > Len(s) THEN [raised |-> "None", name |-> <<>>, out |-> out]
    ELSE IF s[i] = "{"
    THEN IF i = Len(s)
         THEN [raised |-> "ValueError", name |-> <<>>, out |-> <<>>]
         ELSE IF s[i + 1] = "{"
         THEN FormatFrom(s, variables, i + 2, Append(out, "{"))
         ELSE LET j == NextBrace(s, i + 1)
              IN IF j = 0 \/ s[j] = "{"
                 THEN [raised |-> "ValueError", name |-> <<>>, out |-> <<>>]
                 ELSE LET name == SubSeq(s, i + 1, j - 1)
                          v == FieldValue(variables, name)
                      IN IF name = <<>>
                         THEN [raised |-> "IndexError", name |-> <<>>, out |-> <<>>]
                         ELSE IF v.found
                         THEN FormatFrom(s, variables, j + 1, out \o v.value)
                         ELSE [raised |-> "KeyError", name |-> name, out |-> <<>>]
    ELSE IF s[i] = "}"
    THEN IF i < Len(s) /\ s[i + 1] = "}"
         THEN FormatFrom(s, variables, i + 2, Append(out, "}"))
         ELSE [raised |-> "ValueError", name |-> <<>>, out |-> <<>>]
    ELSE FormatFrom(s, variables, i + 1, Append(out, s[i]))

Format(s, variables) == FormatFrom(s, variables, 1, <<>>)

\* lines 61-67: the pair returned for what str.format did
NoLatex == <<"None">>
FillResult(f) ==
    CASE f.raised = "None" ->
           [latex_code |-> f.out, error |-> [kind |-> "None", name |-> <<>>]]
      [] f.raised = "KeyError" ->
           [latex_code |-> NoLatex,
            error |-> [kind |-> "Template variable missing: ", name |-> f.name]]
      [] OTHER ->
           [latex_code |-> NoLatex,
            error |-> [kind |-> "Template processing error: ", name |-> <<>>]]

FillTemplate ==
    /\ UNCHANGED notFill
    /\ fill_pc = "ready"
    /\ fill_pc' = "done"
    /\ filled' = FillResult(Format(latex_template, template_vars))
    /\ UNCHANGED <<latex_template, template_vars>>

NotFilled == [latex_code |-> NoLatex, error |-> [kind |-> "(no return)", name |-> <<>>]]

\* a template of escaped braces and two placeholders: {{ {title} }} {content}
InitFill ==
    /\ latex_template = <<"{", "{", "{", "t", "}", "}", "}", "{", "c", "}">>
    /\ template_vars = TemplateVars(<<"T">>)
    /\ fill_pc = "ready"
    /\ filled = NotFilled

InitFillAny ==
    /\ latex_template \in Templates
    /\ \E title \in TitleValues : template_vars = TemplateVars(title)
    /\ fill_pc = "ready"
    /\ filled = NotFilled

NextFill == FillTemplate

----------------------------------------------------------------------------
(* DatabaseManager, the content store of src/models/database.py *)

\* the ids uuid.uuid4() can hand out
ProjectIds == {"p1", "p2"}
ContentIds == {"c1"}

\* a NULL column, Python's None
SqlNull == <<"NULL">>

\* the metadata column holds a dict as JSON text (json.dumps on the way in,
\* json.loads on the way out); the dict is kept here as its caption, empty
\* when it has none
NoMetadata == [caption |-> <<>>]

\* "INSERT INTO projects (id, name, type, settings)": the other columns take
\* their defaults, CURRENT_TIMESTAMP and 'active'
ProjectRow(name, type, settings, at) ==
    [name |-> name, type |-> type, created_at |-> at, updated_at |-> at,
     settings |-> settings, status |-> "active"]

\* "INSERT INTO content (...)": created_at takes CURRENT_TIMESTAMP
ContentRow(project_id, type, text, image_path, audio_path, order_index, metadata, at) ==
    [project_id |-> project_id, type |-> type, content_text |-> text,
     image_path |-> image_path, audio_path |-> audio_path,
     order_index |-> order_index, metadata |-> metadata, created_at |-> at]

\* a table with one row added or replaced
WithRow(table, id, row) ==
    [i \in DOMAIN table \cup {id} |-> IF i = id THEN row ELSE table[i]]

\* a table with one row deleted
WithoutRow(table, id) == [i \in DOMAIN table \ {id} |-> table[i]]

\* what a store method returned: None, True, a str, a dict or a list
Returned(kind, data) == [kind |-> kind, data |-> data]
NoneReturned == Returned("None", <<>>)
TrueReturned == Returned("True", <<>>)

\* the operation just made: the method, the id it was addressed to, the
\* project that owns the row it wrote, its keyword arguments, whether the
\* addressed row existed, and the time it ran at
Operation(op, id, owner, kwargs, existed, at) ==
    [op |-> op, id |-> id, owner |-> owner, kwargs |-> kwargs,
     existed |-> existed, at |-> at]
NoOperation == Operation("none", "", "", {}, FALSE, 0)

\* the sequences that hold each element of S once, in an order where no
\* element comes after one it sorts before (before: the pairs <<a, b>> with a
\* sorting before b): the answers an ORDER BY can give, rows with equal keys
\* coming in any order
SortedSeqs(S, before) ==
    {q \in [1 .. Cardinality(S) -> S] :
        /\ \A i, j \in DOMAIN q : i # j => q[i] # q[j]
        /\ \A i, j \in DOMAIN q : i < j => <<q[j], q[i]>> \notin before}

\* create_project, lines 199-213
create_project(name, project_type, settings) ==
    /\ UNCHANGED notStore
    /\ \E project_id \in ProjectIds \ DOMAIN projects :
         /\ projects' = WithRow(projects, project_id,
                                ProjectRow(name, project_type, settings, db_now))
         /\ store_op' = Operation("create_project", project_id, project_id, {}, FALSE, db_now)
         /\ store_ret' = Returned("str", <<project_id>>)
    /\ UNCHANGED <<content, db_now>>

\* the rows get_projects selects: "WHERE [type = ? AND] status = 'active'"
ActiveProjectsAnyStatus(table, project_type) ==
    {p \in DOMAIN table : project_type # "None" => table[p].type = project_type}
ActiveProjects(table, project_type) ==
    {p \in DOMAIN table :
        /\ table[p].status = "active"
        /\ project_type # "None" => table[p].type = project_type}

\* the lists get_projects can return: "ORDER BY updated_at DESC"
ProjectLists(table, project_type) ==
    LET S == ActiveProjects(table, project_type)
    IN SortedSeqs(S, {ab \in S \X S : table[ab[1]].updated_at > table[ab[2]].updated_at})

\* get_projects, lines 215-247
get_projects(project_type) ==
    /\ UNCHANGED notStore
    /\ \E listed \in ProjectLists(projects, project_type) :
         store_ret' = Returned("list", listed)
    /\ store_op' = Operation("get_projects", "", "", {}, FALSE, db_now)
    /\ UNCHANGED <<projects, content, db_now>>

\* get_project, lines 249-268: the row as a dict, or None
GetProject(table, project_id) ==
    IF project_id \in DOMAIN table
    THEN Returned("dict", <<table[project_id]>>)
    ELSE NoneReturned

get_project(project_id) ==
    /\ UNCHANGED notStore
    /\ store_ret' = GetProject(projects, project_id)
    /\ store_op' = Operation("get_project", project_id, project_id, {},
                             project_id \in DOMAIN projects, db_now)
    /\ UNCHANGED <<projects, content, db_now>>

\* the columns update_project writes (lines 279-285); any other keyword is
\* ignored
ProjectFields == {"name", "type", "status", "settings"}

\* the keyword arguments callers pass to update_project
ProjectKwargs ==
    <<[name |-> <<"T">>], [status |-> "active"], [description |-> <<"T">>]>>

\* "UPDATE projects SET <fields>, updated_at = CURRENT_TIMESTAMP WHERE id = ?"
UpdatedProject(row, kwargs, at) ==
    [f \in DOMAIN row |->
        IF f \in DOMAIN kwargs \cap ProjectFields THEN kwargs[f]
        ELSE IF f = "updated_at" THEN at
        ELSE row[f]]

\* update_project, lines 270-296: returns True whatever the UPDATE matched
update_project(project_id, kwargs) ==
    /\ UNCHANGED notStore
    /\ projects' =
         IF project_id \in DOMAIN projects /\ DOMAIN kwargs \cap ProjectFields # {}
         THEN [projects EXCEPT ![project_id] = UpdatedProject(@, kwargs, db_now)]
         ELSE projects
    /\ store_ret' = TrueReturned
    /\ store_op' = Operation("update_project", project_id, project_id, DOMAIN kwargs,
                             project_id \in DOMAIN projects, db_now)
    /\ UNCHANGED <<content, db_now>>

\* delete_project, lines 298-311: status = 'deleted', updated_at stamped
delete_project(project_id) ==
    /\ UNCHANGED notStore
    /\ projects' =
         IF project_id \in DOMAIN projects
         THEN [projects EXCEPT ![project_id] =
                   [@ EXCEPT !.status = "deleted", !.updated_at = db_now]]
         ELSE projects
    /\ store_ret' = TrueReturned
    /\ store_op' = Operation("delete_project", project_id, project_id, {},
                             project_id \in DOMAIN projects, db_now)
    /\ UNCHANGED <<content, db_now>>

\* add_content, lines 313-336: one INSERT INTO content, nothing else
add_content(project_id, content_type, text, image_path, audio_path, order_index, metadata) ==
    /\ UNCHANGED notStore
    /\ \E content_id \in ContentIds \ DOMAIN content :
         /\ content' = WithRow(content, content_id,
                               ContentRow(project_id, content_type, text, image_path,
                                          audio_path, order_index, metadata, db_now))
         /\ store_op' = Operation("add_content", content_id, project_id, {}, FALSE, db_now)
         /\ store_ret' = Returned("str", <<content_id>>)
    /\ UNCHANGED <<projects, db_now>>

\* the lists get_project_content can return (lines 343-365):
\* "WHERE project_id = ? ORDER BY order_index, created_at"
ContentLists(table, project_id) ==
    LET S == {c \in DOMAIN table : table[c].project_id = project_id}
    IN SortedSeqs(S, {ab \in S \X S :
                        \/ table[ab[1]].order_index < table[ab[2]].order_index
                        \/ /\ table[ab[1]].order_index = table[ab[2]].order_index
                           /\ table[ab[1]].created_at < table[ab[2]].created_at})

\* get_project_content, lines 338-365
get_project_content(project_id) ==
    /\ UNCHANGED notStore
    /\ \E listed \in ContentLists(content, project_id) :
         store_ret' = Returned("list", listed)
    /\ store_op' = Operation("get_project_content", project_id, project_id, {},
                             project_id \in DOMAIN projects, db_now)
    /\ UNCHANGED <<projects, content, db_now>>

\* the columns update_content writes (lines 375-381)
ContentFields == {"content_text", "image_path", "audio_path", "order_index", "metadata"}

\* the keyword arguments callers pass to update_content
ContentKwargs ==
    <<[content_text |-> <<"b">>], [type |-> "image"],
      [image_path |-> <<"/", "static/generated/scene.png">>]>>

\* "UPDATE content SET <fields> WHERE id = ?"
UpdatedContent(row, kwargs) ==
    [f \in DOMAIN row |->
        IF f \in DOMAIN kwargs \cap ContentFields THEN kwargs[f] ELSE row[f]]

\* the project a content row belongs to, "" when there is no such row
OwnerOf(table, content_id) ==
    IF content_id \in DOMAIN table THEN table[content_id].project_id ELSE ""

\* update_content, lines 367-391: returns True whatever the UPDATE matched
update_content(content_id, kwargs) ==
    /\ UNCHANGED notStore
    /\ content' =
         IF content_id \in DOMAIN content /\ DOMAIN kwargs \cap ContentFields # {}
         THEN [content EXCEPT ![content_id] = UpdatedContent(@, kwargs)]
         ELSE content
    /\ store_ret' = TrueReturned
    /\ store_op' = Operation("update_content", content_id, OwnerOf(content, content_id),
                             DOMAIN kwargs, content_id \in DOMAIN content, db_now)
    /\ UNCHANGED <<projects, db_now>>

\* delete_content, lines 393-401: returns True whatever the DELETE matched
delete_content(content_id) ==
    /\ UNCHANGED notStore
    /\ content' = WithoutRow(content, content_id)
    /\ store_ret' = TrueReturned
    /\ store_op' = Operation("delete_content", content_id, OwnerOf(content, content_id),
                             {}, content_id \in DOMAIN content, db_now)
    /\ UNCHANGED <<projects, db_now>>

\* the latex_template column of the three rows insert_default_templates
\* writes, cut at the braces: each brace is one element, the text between two
\* braces is one element
ChildrenStorybookTemplate ==
    <<"\\documentclass[a4paper,12pt]", "{", "book", "}",
      "\n\\usepackage[utf8]", "{", "inputenc", "}", "\n\\usepackage", "{",
      "graphicx", "}", "\n\\usepackage[margin=1in]", "{", "geometry", "}",
      "\n\\usepackage", "{", "fancyhdr", "}", "\n\\usepackage", "{",
      "titlesec", "}", "\n\\usepackage", "{", "xcolor", "}",
      "\n\\usepackage", "{", "tcolorbox", "}", "\n\n\\definecolor", "{",
      "storyblue", "}", "{", "RGB", "}", "{", "102,126,234", "}",
      "\n\\definecolor", "{", "storypurple", "}", "{", "RGB", "}", "{",
      "118,75,162", "}", "\n\n\\title", "{", "{", "\\Huge\\textcolor", "{",
      "storyblue", "}", "{", "{", "{", "title", "}", "}", "}", "}", "}",
      "\n\\author", "{", "{", "\\Large\\textcolor", "{", "storypurple", "}",
      "{", "{", "{", "author", "}", "}", "}", "}", "}", "\n\\date", "{", "{",
      "\\textcolor", "{", "gray", "}", "{", "{", "{", "date", "}", "}", "}",
      "}", "}", "\n\n\\pagestyle", "{", "fancy", "}", "\n\\fancyhf", "{",
      "{", "}", "}", "\n\\fancyhead[C]", "{", "{", "\\textcolor", "{",
      "storyblue", "}", "{", "{", "{", "title", "}", "}", "}", "}", "}",
      "\n\\fancyfoot[C]", "{", "{", "\\thepage", "}", "}", "\n\n\\begin",
      "{", "{", "document", "}", "}",
      "\n\\maketitle\n\\newpage\n\\tableofcontents\n\\newpage\n\n", "{",
      "content", "}", "\n\n\\end", "{", "{", "document", "}", "}">>

ComicBookTemplate ==
    <<"\\documentclass[a4paper]", "{", "article", "}",
      "\n\\usepackage[utf8]", "{", "inputenc", "}", "\n\\usepackage", "{",
      "graphicx", "}", "\n\\usepackage[margin=0.75in]", "{", "geometry", "}",
      "\n\\usepackage", "{", "multicol", "}", "\n\\usepackage", "{",
      "xcolor", "}", "\n\\usepackage", "{", "tikz", "}", "\n\\usepackage",
      "{", "tcolorbox", "}", "\n\n\\definecolor", "{", "comicred", "}", "{",
      "RGB", "}", "{", "220,20,60", "}", "\n\\definecolor", "{", "comicblue",
      "}", "{", "RGB", "}", "{", "30,144,255", "}", "\n\n\\title", "{", "{",
      "\\Huge\\textbf", "{", "{", "\\textcolor", "{", "comicred", "}", "{",
      "{", "{", "title", "}", "}", "}", "}", "}", "}", "}", "\n\\date", "{",
      "{", "\\textcolor", "{", "comicblue", "}", "{", "{", "{", "date", "}",
      "}", "}", "}", "}", "\n\n\\begin", "{", "{", "document", "}", "}",
      "\n\\maketitle\n\\thispagestyle", "{", "{", "empty", "}", "}",
      "\n\\newpage\n\n", "{", "content", "}", "\n\n\\end", "{", "{",
      "document", "}", "}">>

EducationalBookTemplate ==
    <<"\\documentclass[a4paper,11pt]", "{", "report", "}",
      "\n\\usepackage[utf8]", "{", "inputenc", "}", "\n\\usepackage", "{",
      "graphicx", "}", "\n\\usepackage[margin=1.2in]", "{", "geometry", "}",
      "\n\\usepackage", "{", "fancyhdr", "}", "\n\\usepackage", "{",
      "titlesec", "}", "\n\\usepackage", "{", "hyperref", "}",
      "\n\\usepackage", "{", "tcolorbox", "}", "\n\n\\title", "{", "{",
      "\\LARGE\\textbf", "{", "{", "{", "title", "}", "}", "}", "}", "}",
      "\n\\author", "{", "{", "{", "author", "}", "}", "}", "\n\\date", "{",
      "{", "{", "date", "}", "}", "}", "\n\n\\pagestyle", "{", "fancy", "}",
      "\n\\fancyhf", "{", "{", "}", "}", "\n\\fancyhead[L]", "{", "{",
      "\\leftmark", "}", "}", "\n\\fancyhead[R]", "{", "{", "{", "title",
      "}", "}", "}", "\n\\fancyfoot[C]", "{", "{", "\\thepage", "}", "}",
      "\n\n\\begin", "{", "{", "document", "}", "}",
      "\n\\maketitle\n\\tableofcontents\n\\newpage\n\n", "{", "content", "}",
      "\n\n\\end", "{", "{", "document", "}", "}">>

\* the templates table after insert_default_templates (lines 77-197); no
\* method of the store writes it afterwards
templates ==
    [id \in {"children_storybook", "comic_book", "educational_book"} |->
        CASE id = "children_storybook" ->
               [type |-> "story", latex_template |-> ChildrenStorybookTemplate]
          [] id = "comic_book" ->
               [type |-> "comic", latex_template |-> ComicBookTemplate]
          [] id = "educational_book" ->
               [type |-> "educational", latex_template |-> EducationalBookTemplate]]

\* get_template, lines 436-455: the row as a dict, or None
GetTemplate(template_id) ==
    IF template_id \in DOMAIN templates
    THEN Returned("dict", <<templates[template_id]>>)
    ELSE NoneReturned

get_template(template_id) ==
    /\ UNCHANGED notStore
    /\ store_ret' = GetTemplate(template_id)
    /\ store_op' = Operation("get_template", template_id, "", {},
                             template_id \in DOMAIN templates, db_now)
    /\ UNCHANGED <<projects, content, db_now>>

\* a second passes on the database clock
StoreTick ==
    /\ UNCHANGED notStore
    /\ db_now < MaxClock
    /\ db_now' = db_now + 1
    /\ store_op' = NoOperation
    /\ store_ret' = NoneReturned
    /\ UNCHANGED <<projects, content>>

\* the store after DatabaseManager(): empty tables, templates seeded
InitStore ==
    /\ projects = <<>>
    /\ content = <<>>
    /\ db_now = 0
    /\ store_op = NoOperation
    /\ store_ret = NoneReturned

NextStore ==
    \/ create_project(<<"T">>, "story", "{}")
    \/ \E type \in {"None", "story"} : get_projects(type)
    \/ \E id \in ProjectIds : get_project(id)
    \/ \E id \in ProjectIds, k \in DOMAIN ProjectKwargs :
          update_project(id, ProjectKwargs[k])
    \/ \E id \in ProjectIds : delete_project(id)
    \/ \E id \in ProjectIds :
          add_content(id, "text", <<"a">>, SqlNull, SqlNull, 0, NoMetadata)
    \/ \E id \in ProjectIds : get_project_content(id)
    \/ \E id \in ContentIds, k \in DOMAIN ContentKwargs :
          update_content(id, ContentKwargs[k])
    \/ \E id \in ContentIds : delete_content(id)
    \/ \E id \in {"children_storybook", "ecommerce"} : get_template(id)
    \/ StoreTick

----------------------------------------------------------------------------
(* The document assembler, src/models/pdf_generator.py lines 69-204 *)

\* the files that exist under the paths image items refer to
FilesOnDisk == {<<"/", "static/generated/scene.png">>}

\* os.path.exists(path)
Exists(path) == path \in FilesOnDisk

\* custom_settings / settings: None, or a dict
NoneSettings == [none |-> TRUE, dict |-> <<>>]
Dict(d) == [none |-> FALSE, dict |-> d]

\* "if settings": None and the empty dict are both false
Truthy(settings) == ~settings.none /\ DOMAIN settings.dict # {}

\* settings.get(key, default)
Get(settings, key, default) ==
    IF key \in DOMAIN settings.dict THEN settings.dict[key] ELSE default

\* s.replace(ch, rep) for a one-character ch
RECURSIVE Replace(_, _, _)
Replace(s, ch, rep) ==
    IF s = <<>> THEN <<>>
    ELSE (IF Head(s) = ch THEN rep ELSE <<Head(s)>>) \o Replace(Tail(s), ch, rep)

\* latex_special_chars (lines 143-154) in the order the dict is iterated:
\* each entry is the character and its replacement
latex_special_chars ==
    <<[char |-> "&", replacement |-> <<"\\", "&">>],
      [char |-> "%", replacement |-> <<"\\", "%">>],
      [char |-> "$", replacement |-> <<"\\", "$">>],
      [char |-> "#", replacement |-> <<"\\", "#">>],
      [char |-> "^", replacement |->
          <<"\\", "t", "e", "x", "t", "a", "s", "c", "i", "i", "c", "i", "r",
            "c", "u", "m", "{", "}">>],
      [char |-> "_", replacement |-> <<"\\", "_">>],
      [char |-> "{", replacement |-> <<"\\", "{">>],
      [char |-> "}", replacement |-> <<"\\", "}">>],
      [char |-> "~", replacement |->
          <<"\\", "t", "e", "x", "t", "a", "s", "c", "i", "i", "t", "i", "l",
            "d", "e", "{", "}">>],
      [char |-> "\\", replacement |->
          <<"\\", "t", "e", "x", "t", "b", "a", "c", "k", "s", "l", "a", "s",
            "h", "{", "}">>]>>

\* lines 156-158: the replacements are applied one after the other, each to
\* the result of the one before
RECURSIVE EscapeFrom(_, _)
EscapeFrom(text, k) ==
    IF k > Len(latex_special_chars) THEN text
    ELSE EscapeFrom(Replace(text, latex_special_chars[k].char,
                            latex_special_chars[k].replacement), k + 1)

\* lines 161-163: the first replace turns every " into ''; the other two
\* find nothing left to replace
Quotes(text) == Replace(text, "\"", <<"'", "'">>)

\* text.split('\n\n')
RECURSIVE Split(_)
Split(s) ==
    IF \E i \in 1 .. Len(s) - 1 : s[i] = "\n" /\ s[i + 1] = "\n"
    THEN LET i == CHOOSE k \in 1 .. Len(s) - 1 :
                    /\ s[k] = "\n" /\ s[k + 1] = "\n"
                    /\ \A h \in 1 .. k - 1 : ~(s[h] = "\n" /\ s[h + 1] = "\n")
         IN <<SubSeq(s, 1, i - 1)>> \o Split(SubSeq(s, i + 2, Len(s)))
    ELSE <<s>>

\* para.strip()
Whitespace == {" ", "\n", "\t"}
RECURSIVE Strip(_)
Strip(s) ==
    IF s = <<>> THEN <<>>
    ELSE IF Head(s) \in Whitespace THEN Strip(Tail(s))
    ELSE IF s[Len(s)] \in Whitespace THEN Strip(SubSeq(s, 1, Len(s) - 1))
    ELSE s

\* sep.join(parts)
RECURSIVE Join(_, _)
Join(sep, parts) ==
    IF parts = <<>> THEN <<>>
    ELSE IF Len(parts) = 1 THEN parts[1]
    ELSE parts[1] \o sep \o Join(sep, Tail(parts))

\* the characters of "\noindent "
NoIndent == <<"\\", "n", "o", "i", "n", "d", "e", "n", "t", " ">>

\* line 167: every paragraph that is not blank, stripped, after "\noindent "
Paragraphs(parts) ==
    LET kept == SelectSeq(parts, LAMBDA para : Strip(para) # <<>>)
    IN [k \in DOMAIN kept |-> NoIndent \o Strip(kept[k])]

\* _clean_text_for_latex, lines 139-167
_clean_text_for_latex(text) ==
    Join(<<"\n", "\n">>, Paragraphs(Split(Quotes(EscapeFrom(text, 1)))))

\* image_path.lstrip('/')
RECURSIVE LStrip(_)
LStrip(path) == IF path # <<>> /\ Head(path) = "/" THEN LStrip(Tail(path)) ELSE path

\* _create_image_section, lines 169-204: the lines of the figure block,
\* joined by newlines
_create_image_section(image_item, settings) ==
    LET image_path == LStrip(image_item.image_path)
        width == IF Truthy(settings) THEN Get(settings, "image_width", "0.8") ELSE "0.8"
        centering == IF Truthy(settings) THEN Get(settings, "center_images", "True") ELSE "True"
        caption == image_item.metadata.caption
    IN Join(<<"\n">>,
            <<<<"\\begin{figure}[h!]">>>>
            \o (IF centering = "True" THEN <<<<"\\centering">>>> ELSE <<>>)
            \o <<<<"\\includegraphics[width=", width, "\\textwidth]{">>
                 \o image_path \o <<"}">>>>
            \o (IF caption # <<>>
                THEN <<<<"\\caption{">> \o _clean_text_for_latex(caption) \o <<"}">>>>
                ELSE <<>>)
            \o <<<<"\\end{figure}">>, <<"\\vspace{0.5em}">>>>)

\* item['order_index'] // 10
SceneIndex(item) == item.order_index \div 10

\* _group_content_by_scene, lines 113-137: the scenes in ascending key order,
\* each with its items of one type in the order they came in
ItemsOf(items, scene_index, type) ==
    SelectSeq(items,
              LAMBDA item : SceneIndex(item) = scene_index /\ item.type = type)

\* the scene keys in the order their first items arrive
RECURSIVE ArrivalKeys(_)
ArrivalKeys(items) ==
    IF items = <<>> THEN <<>>
    ELSE LET rest == ArrivalKeys(SubSeq(items, 1, Len(items) - 1))
             key == SceneIndex(items[Len(items)])
         IN IF \E k \in DOMAIN rest : rest[k] = key THEN rest ELSE Append(rest, key)

ScenesInArrivalOrder(items) ==
    LET sorted == ArrivalKeys(items)
    IN [k \in DOMAIN sorted |->
          [title |-> <<"Scene ", ToString(sorted[k] + 1)>>,
           text_items |-> ItemsOf(items, sorted[k], "text"),
           image_items |-> ItemsOf(items, sorted[k], "image"),
           audio_items |-> ItemsOf(items, sorted[k], "audio")]]
_group_content_by_scene(items) ==
    LET keys == {SceneIndex(items[k]) : k \in DOMAIN items}
        sorted == CHOOSE q \in SortedSeqs(keys, {ab \in keys \X keys : ab[1] < ab[2]}) : TRUE
    IN [k \in DOMAIN sorted |->
          [title |-> <<"Scene ", ToString(sorted[k] + 1)>>,
           text_items |-> ItemsOf(items, sorted[k], "text"),
           image_items |-> ItemsOf(items, sorted[k], "image"),
           audio_items |-> ItemsOf(items, sorted[k], "audio")]]

\* a fragment of the assembled content: its markup, and the content item it
\* was made from ("" for headings and breaks)
Fragment(markup, of) == [markup |-> markup, of |-> of]

\* lines 84-88: the heading of a scene
Heading(scene_content, settings) ==
    IF Truthy(settings) /\ Get(settings, "book_type", "None") = "comic"
    THEN <<"\\section*{">> \o scene_content.title \o <<"}">>
    ELSE <<"\\chapter{">> \o scene_content.title \o <<"}">>

\* lines 91-95: the text items that have text, cleaned
TextFragments(scene_content) ==
    LET kept == SelectSeq(scene_content.text_items,
                          LAMBDA item : item.content_text # SqlNull /\ item.content_text # <<>>)
    IN [k \in DOMAIN kept |->
          Fragment(_clean_text_for_latex(kept[k].content_text), kept[k].id)]

\* the test of line 99: the item has a path and the file exists
ImageShownIfPathSet(item) == item.image_path # SqlNull /\ item.image_path # <<>>
ImageShown(item) ==
    item.image_path # SqlNull /\ item.image_path # <<>> /\ Exists(item.image_path)

\* lines 98-101: the image items whose file exists, as figure blocks
ImageFragments(scene_content, settings) ==
    LET kept == SelectSeq(scene_content.image_items, ImageShown)
    IN [k \in DOMAIN kept |->
          Fragment(_create_image_section(kept[k], settings), kept[k].id)]

\* lines 80-107: heading, texts, images, break
SceneSections(scene_content, settings) ==
    <<Fragment(Heading(scene_content, settings), "")>>
    \o TextFragments(scene_content)
    \o ImageFragments(scene_content, settings)
    \o <<Fragment(<<"\\vspace{1em}">>, "")>>

\* _build_content_sections, lines 69-111
RECURSIVE SectionsOf(_, _)
SectionsOf(grouped_content, settings) ==
    IF grouped_content = <<>> THEN <<>>
    ELSE SceneSections(Head(grouped_content), settings)
         \o SectionsOf(Tail(grouped_content), settings)

_build_content_sections(items, settings) ==
    SectionsOf(_group_content_by_scene(items), settings)

\* the strings of a list of fragments
Markup(sections) == [k \in DOMAIN sections |-> sections[k].markup]

\* the dicts get_project_content returns for the listed rows (lines 352-365)
Items(table, listed) ==
    [k \in DOMAIN listed |-> [id |-> listed[k]] @@ table[listed[k]]]

\* template_vars, lines 53-58; the date is whatever strftime gives today
ProjectTemplateVars(project, custom_settings, sections) ==
    (<<"title">> :> project.name)
    @@ (<<"author">> :> Get(custom_settings, "author", <<"StoryWeaver AI">>))
    @@ (<<"date">> :> <<"November 06, 2026">>)
    @@ (<<"content">> :> Join(<<"\n", "\n">>, Markup(sections)))

\* what generate_latex_from_project and create_audiobook_companion hand
\* back: the (result, error) pair, or the exception that escapes
Pair(result, error) == [result |-> result, error |-> error, raised |-> "None"]
Escapes(exception) ==
    [result |-> NoLatex, error |-> [kind |-> "(no return)", name |-> <<>>],
     raised |-> exception]
ErrorOnly(message) == Pair(NoLatex, [kind |-> message, name |-> <<>>])

\* no assembly made yet
NoArgs ==
    [method |-> "none", project_id |-> "", template_id |-> "",
     custom_settings |-> NoneSettings, output_filename |-> ""]
NoResultYet == Escapes("None")

\* generate_latex_from_project, lines 30-67
generate_latex_from_project(project_id, template_id, custom_settings) ==
    /\ UNCHANGED notAsm
    /\ asm_pc = "ready"
    /\ asm_pc' = "done"
    /\ asm_args' = [method |-> "generate_latex_from_project", project_id |-> project_id,
                    template_id |-> template_id, custom_settings |-> custom_settings,
                    output_filename |-> ""]
    /\ IF GetProject(projects, project_id).kind = "None"
       THEN /\ gen_ret' = ErrorOnly("Project not found")
            /\ content_items' = <<>>
            /\ latex_sections' = <<>>
       ELSE IF GetTemplate(template_id).kind = "None"
       THEN /\ gen_ret' = ErrorOnly("Template not found")
            /\ content_items' = <<>>
            /\ latex_sections' = <<>>
       ELSE \E listed \in ContentLists(content, project_id) :
              /\ content_items' = Items(content, listed)
              /\ latex_sections' = _build_content_sections(content_items', custom_settings)
              /\ IF custom_settings.none
                 THEN gen_ret' = Escapes("AttributeError")
                 ELSE LET f == FillResult(Format(
                                   templates[template_id].latex_template,
                                   ProjectTemplateVars(projects[project_id], custom_settings,
                                                       latex_sections')))
                      IN gen_ret' = Pair(f.latex_code, f.error)

\* os.path.basename(path): what follows the last separator
Basename(path) ==
    LET seps == {k \in DOMAIN path : path[k] = "/"}
    IN IF seps = {} THEN path
       ELSE SubSeq(path, (CHOOSE k \in seps : \A j \in seps : j <= k) + 1, Len(path))

\* len(text.split()): the runs of characters that are not whitespace
WordCount(text) ==
    Cardinality({k \in DOMAIN text :
                    text[k] \notin Whitespace /\ (k = 1 \/ text[k - 1] \in Whitespace)})

\* "if x" for a column value: NULL and the empty string are both false
Filled(value) == value # SqlNull /\ value # <<>>

\* _estimate_audio_duration, lines 420-426, in tenths of a minute:
\* round(word_count / 150, 1), or 1.0 when the item has no text
_estimate_audio_duration(audio_item) ==
    IF Filled(audio_item.content_text)
    THEN (2 * WordCount(audio_item.content_text) + 15) \div 30
    ELSE 10

\* lines 401-408: the file name and the duration printed for track i
Track(i, audio_item) ==
    [track |-> i,
     file |-> IF Filled(audio_item.audio_path) THEN Basename(audio_item.audio_path)
              ELSE <<"track_", ToString(i), ".mp3">>,
     tenths |-> _estimate_audio_duration(audio_item),
     of |-> audio_item.id]

\* _generate_audiobook_latex, lines 378-418: the fixed preamble and closing
\* lines apart, the title and one block per audio item
_generate_audiobook_latex(project, audio_items) ==
    [title |-> <<"Audio Companion: ">> \o _clean_text_for_latex(project.name),
     tracks |-> [i \in DOMAIN audio_items |-> Track(i, audio_items[i])]]

\* line 367: [item for item in content_items if item['type'] == 'audio']
AudioItemsAnyType(items) == items
AudioItems(items) == SelectSeq(items, LAMBDA item : item.type = "audio")

\* create_audiobook_companion, lines 357-376: the two early returns, or the
\* call of compile_pdf whose (path, error) pair it hands back
create_audiobook_companion(project_id, filename, p, written) ==
    /\ UNCHANGED <<sharedVars, limiterVars, fillVars, storeVars,
                   cleanVars, bookVars, batchVars>>
    /\ asm_pc = "compiling" => pc \in Terminal
    /\ asm_args' = [method |-> "create_audiobook_companion", project_id |-> project_id,
                    template_id |-> "", custom_settings |-> NoneSettings,
                    output_filename |-> filename]
    /\ IF GetProject(projects, project_id).kind = "None"
       THEN /\ asm_pc' = "done"
            /\ gen_ret' = ErrorOnly("Project not found")
            /\ content_items' = <<>>
            /\ latex_sections' = <<>>
            /\ UNCHANGED compileVars
       ELSE \E listed \in ContentLists(content, project_id) :
              /\ content_items' = Items(content, listed)
              /\ IF AudioItems(content_items') = <<>>
                 THEN /\ asm_pc' = "done"
                      /\ gen_ret' = ErrorOnly("No audio content found in project")
                      /\ latex_sections' = <<>>
                      /\ UNCHANGED compileVars
                 ELSE /\ asm_pc' = "compiling"
                      /\ gen_ret' = NoResultYet
                      /\ latex_sections' =
                            _generate_audiobook_latex(projects[project_id],
                                                      AudioItems(content_items'))
                      /\ compile_pdf(AudiobookName(filename), TRUE, p, written)

InitAsm ==
    /\ asm_pc = "ready"
    /\ asm_args = NoArgs
    /\ content_items = <<>>
    /\ latex_sections = <<>>
    /\ gen_ret = NoResultYet

\* the ids of the rows of a drawn store, in the order they were added
ItemIds == <<"c1", "c2", "c3", "c4">>

\* the first seeded scenario's text: Once upon a time & far away
OnceUponATime ==
    <<"O", "n", "c", "e", " ", "u", "p", "o", "n", " ", "a", " ", "t", "i", "m",
      "e", " ", "&", " ", "f", "a", "r", " ", "a", "w", "a", "y">>

\* the values the columns of a drawn content row take
OrderIndexes == {0, 1, 10}
ImagePaths == {SqlNull, <<"/", "static/generated/scene.png">>, <<"/", "static/generated/lost.png">>}

\* the rows add_content can have written for project p1 at second `at`
ItemChoices(at) ==
    {ContentRow("p1", "text", OnceUponATime, SqlNull, SqlNull, order_index, NoMetadata, at) :
        order_index \in OrderIndexes}
    \cup {ContentRow("p1", "text", SqlNull, SqlNull, SqlNull, 0, NoMetadata, at)}
    \cup {ContentRow("p1", "image", SqlNull, image_path, SqlNull, order_index, NoMetadata, at) :
        image_path \in ImagePaths, order_index \in OrderIndexes}
    \cup {ContentRow("p1", "audio", SqlNull, SqlNull, <<"/", "static/generated/a.mp3">>,
                     0, NoMetadata, at)}

\* a store that create_project and add_content calls have filled: two
\* projects, the second named R&D, and up to MaxItems content rows of the
\* first
InitStoreAny ==
    /\ projects = ("p1" :> ProjectRow(<<"T">>, "story", "{}", 0))
                   @@ ("p2" :> ProjectRow(<<"R", "&", "D">>, "ecommerce", "{}", 0))
    /\ db_now = 1
    /\ store_op = NoOperation
    /\ store_ret = NoneReturned
    /\ \E n \in 0 .. MaxItems :
         \E rows \in [1 .. n -> ItemChoices(0) \cup ItemChoices(1)] :
            /\ \A i, j \in 1 .. n : i < j => rows[i].created_at <= rows[j].created_at
            /\ content = [id \in {ItemIds[k] : k \in 1 .. n} |->
                             rows[CHOOSE k \in 1 .. n : ItemIds[k] = id]]

\* the rows of a project that may have narration: a text, an image, and audio
\* rows with and without a file path and a text; the second project has one
\* narration track
TrackChoices ==
    {ContentRow("p1", "text", OnceUponATime, SqlNull, SqlNull, 0, NoMetadata, 0),
     ContentRow("p1", "image", SqlNull, <<"/", "static/generated/scene.png">>, SqlNull,
                1, NoMetadata, 0)}
    \cup {ContentRow("p1", "audio", OnceUponATime, SqlNull, SqlNull, 2, NoMetadata, 0),
          ContentRow("p1", "audio", SqlNull, SqlNull,
                     <<"static", "/", "generated", "/", "p1_scene_0.mp3">>, 2, NoMetadata, 0)}

InitStoreTracks ==
    /\ projects = ("p1" :> ProjectRow(<<"T">>, "story", "{}", 0))
                   @@ ("p2" :> ProjectRow(<<"T">>, "ecommerce", "{}", 0))
    /\ db_now = 1
    /\ store_op = NoOperation
    /\ store_ret = NoneReturned
    /\ \E n \in 0 .. MaxItems :
         \E rows \in [1 .. n -> TrackChoices] :
            content = [id \in {ItemIds[k] : k \in 1 .. n} |->
                          rows[CHOOSE k \in 1 .. n : ItemIds[k] = id]]
                      @@ ("c0" :> ContentRow("p2", "audio", OnceUponATime, SqlNull, SqlNull,
                                             0, NoMetadata, 0))

\* the custom_settings callers pass: the default None, {}, a comic book
\* with its author J&K
CustomSettings ==
    <<NoneSettings, Dict(<<>>),
      Dict([book_type |-> "comic", author |-> <<"J", "&", "K">>])>>

\* the (project_id, template_id) pairs callers pass: a project with a seeded
\* template, a template id that has no row, the project named R&D with a
\* seeded template, a project id that has no row
AssembleCalls ==
    {<<"p1", "children_storybook">>, <<"p2", "ecommerce">>,
     <<"p2", "children_storybook">>, <<"p0", "children_storybook">>}

NextAssemble ==
    \E call \in AssembleCalls, k \in DOMAIN CustomSettings :
          generate_latex_from_project(call[1], call[2], CustomSettings[k])

\* the compiler on the companion document: a clean pass, or a failing one
CompanionResults ==
    {[returncode |-> 0, stderr |-> "", stdout |-> "This is pdfTeX", pdf |-> TRUE],
     [returncode |-> 1, stderr |-> "! Undefined control sequence.", stdout |-> "",
      pdf |-> FALSE]}

NextCompanion ==
    \/ \E project_id \in {"p1", "p2", "p0"}, p \in {"ok", "missing"} :
          create_audiobook_companion(project_id, "project_a", p, TRUE)
    \/ \E o \in PassOutcomes, r \in CompanionResults : FirstPass(o, r)
    \/ \E o \in PassOutcomes, r \in CompanionResults : SecondPass(o, r)

\* _clean_text_for_latex called on the text
CleanText ==
    /\ UNCHANGED notClean
    /\ clean_pc = "ready"
    /\ clean_pc' = "done"
    /\ clean_out' = _clean_text_for_latex(clean_in)
    /\ UNCHANGED clean_in

\* the characters of the texts: a letter, and three of the ten control
\* characters, the backslash among them
CleanChars == {"a", "&", "{", "\\"}

Texts == UNION {[1 .. n -> CleanChars] : n \in 0 .. MaxTextLen}

InitClean ==
    /\ clean_pc = "ready"
    /\ clean_in = <<>>
    /\ clean_out = <<>>

InitCleanAny ==
    /\ clean_pc = "ready"
    /\ clean_in \in Texts
    /\ clean_out = <<>>

NextClean == CleanText

InitBook ==
    /\ book_pc = "idle"
    /\ book_project = ""
    /\ book_data = [generate_audio |-> TRUE, scenes |-> 0]
    /\ book_i = 0
    /\ image_made = <<>>
    /\ generated = {}

InitBatch ==
    /\ task_pc = <<>>
    /\ task_list = <<>>
    /\ task_out = <<>>
    /\ out_of_order = FALSE
    /\ batch_ret = [returned |-> FALSE, results |-> <<>>]
    /\ appended = <<>>

InitCompile ==
    /\ pc = "Idle"
    /\ compile_twice = TRUE
    /\ output_filename = "project_a"
    /\ temp_exists = FALSE
    /\ temp_files = {}
    /\ output_dir = [n \in OutputNames |-> Absent]
    /\ result1 = NoResult
    /\ result2 = NoResult
    /\ passes = 0
    /\ ret = NoReturn
    /\ calls = 0
    /\ out_before = [n \in OutputNames |-> Absent]
    /\ temp_created = FALSE
    /\ probe = "ok"
    /\ ending = "none"

InitShared ==
    /\ req_pc = [p \in Requests |-> "idle"]
    /\ req_impl = [p \in Requests |-> "models"]
    /\ req_name = [p \in Requests |-> "project_a"]
    /\ req_twice = [p \in Requests |-> TRUE]
    /\ req_rc = [p \in Requests |-> 0]
    /\ exports = [f \in Filenames \X Exts |-> 0]
    /\ tmp = [f \in Requests \X Exts |-> 0]
    /\ req_foreign = [p \in Requests |-> FALSE]

\* nothing cleaned, no book requested, no batch started
InitRest == InitClean /\ InitBook /\ InitBatch

Init ==
    /\ InitCompile /\ InitShared /\ InitLimiter /\ InitFill /\ InitStore /\ InitAsm
    /\ InitRest

InitTemplates ==
    /\ InitCompile /\ InitShared /\ InitLimiter /\ InitFillAny /\ InitStore /\ InitAsm
    /\ InitRest

InitCategories ==
    /\ InitCompile /\ InitShared /\ InitFill /\ InitStore /\ InitAsm
    /\ InitRest
    /\ \E c \in Categories : InitLimiterWatching(c)

NextCompile ==
    \/ \E name \in Filenames, twice \in BOOLEAN, p \in ProbeOutcomes, written \in BOOLEAN :
          CompilePdf(name, twice, p, written)
    \/ \E o \in PassOutcomes, r \in CompilerResults : FirstPass(o, r)
    \/ \E o \in PassOutcomes, r \in CompilerResults : SecondPass(o, r)

SpecCompile == Init /\ [][NextCompile]_vars

----------------------------------------------------------------------------
(* Properties of PDFGenerator.compile_pdf, checked under SpecCompile *)

\* the result that decides: the second pass's when it ran, else the first's
FinalResult == IF passes = 2 THEN result2 ELSE result1

\* document.pdf was in the temporary directory when the call decided
PdfProduced == result1.pdf \/ result2.pdf

\* C1: compile_pdf leaves a new file at <output_dir>/<output_filename>.pdf only
\* when the authoritative pass exited zero and document.pdf existed, and then
\* (unless the copy raises) it does; after every failing outcome, a failing
\* copy included, the output directory is exactly what it was when the call
\* started: nothing new, nothing partial, an earlier artifact untouched.
C1_NoPartialArtifact ==
    pc \in Terminal =>
        /\ (output_dir[output_filename] = Complete(calls))
               => (FinalResult.returncode = 0 /\ PdfProduced)
        /\ (FinalResult.returncode = 0 /\ PdfProduced /\ ending # "copy_raised")
               => (pc = "Succeeded" /\ output_dir[output_filename] = Complete(calls))
        /\ (pc # "Succeeded") => (output_dir = out_before)

\* C2: every call that created a temporary directory has removed it, with all
\* files in it, by the time it returns, on every exit path.
C2_TempDirRemoved ==
    (pc \in Terminal /\ temp_created) => (~temp_exists /\ temp_files = {})

\* a call that created its directory and left through the timeout of pass 2
C2_Witness ==
    /\ pc = "Failed" /\ temp_created /\ ending = "TimeoutExpired" /\ passes = 2
    /\ ~temp_exists

\* C3 as stated: at most two passes; the second runs iff the first exited zero
\* and compile_twice; when it runs its exit status alone decides; a non-zero
\* first pass is final.
C3_ExitStatusAloneDecides ==
    /\ passes <= 2
    /\ (pc = "Compiling1") => (passes = 0)
    /\ (pc = "Compiling2") => (passes = 1 /\ compile_twice /\ result1.returncode = 0)
    /\ (pc \in Terminal /\ result1 # NoResult) =>
           ((passes = 2) <=> (compile_twice /\ result1.returncode = 0))
    /\ (pc \in Terminal /\ passes = 2) =>
           ((pc = "Succeeded") <=> (result2.returncode = 0))
    /\ (pc \in Terminal /\ passes = 1 /\ result1.returncode = 1) => (pc = "Failed")

\* C3 amended: as above, but the second pass's result decides together with
\* the existence of document.pdf and the copy: a non-zero second exit always
\* fails, success needs a zero second exit and the PDF, and a zero second exit
\* with the PDF succeeds unless the copy raises.
C3_SecondPassAuthoritative ==
    /\ passes <= 2
    /\ (pc = "Compiling1") => (passes = 0)
    /\ (pc = "Compiling2") => (passes = 1 /\ compile_twice /\ result1.returncode = 0)
    /\ (pc \in Terminal /\ result1 # NoResult) =>
           ((passes = 2) <=> (compile_twice /\ result1.returncode = 0))
    /\ (pc \in Terminal /\ passes = 2) =>
           /\ (result2.returncode # 0) => (pc = "Failed")
           /\ (pc = "Succeeded") => (result2.returncode = 0 /\ PdfProduced)
           /\ (result2.returncode = 0 /\ PdfProduced /\ ending # "copy_raised")
                  => (pc = "Succeeded")
    /\ (pc \in Terminal /\ passes = 1 /\ result1.returncode = 1) => (pc = "Failed")

\* the second pass ran after a zero first pass and failed on its own exit status
C3_Witness ==
    /\ pc = "Failed" /\ passes = 2 /\ result1.returncode = 0
    /\ result2.returncode = 1 /\ result1.pdf

\* C4: a timeout of either pass ends in Failed with the timeout error, which
\* no non-zero exit can produce, and without an output path.
C4_TimeoutDistinct ==
    (pc \in Terminal /\ ending = "TimeoutExpired") =>
        /\ pc = "Failed"
        /\ ret.path = NoPath
        /\ ret.error = CompilationTimeout
        /\ \A r \in CompilerResults : ret.error # CompilationFailed(ErrorLog(r))
        /\ output_dir = out_before

\* the second pass timed out after the first one had succeeded
C4_Witness ==
    /\ pc = "Failed" /\ ending = "TimeoutExpired" /\ passes = 2
    /\ result1.returncode = 0 /\ result1.pdf

\* C5: when the compiler cannot be invoked, compile_pdf returns
\* (None, toolchain unavailable) before creating the temporary directory or
\* writing a file, and no exception escapes the probe.
C5_ToolchainUnavailable ==
    (pc \in Terminal /\ probe # "ok") =>
        /\ pc = "Failed"
        /\ ret = [path |-> NoPath, error |-> ToolchainUnavailable]
        /\ ~temp_created
        /\ output_dir = out_before

----------------------------------------------------------------------------
(* Properties of concurrent compilations, checked under SpecShared *)

SpecShared == Init /\ [][NextShared]_vars

\* C6: every compile_pdf keeps the markup file and the auxiliary build files
\* inside a temporary directory of its own, never inside the shared output
\* directory, so no compilation reads, overwrites or deletes a working file of
\* another.
C6_WorkingFilesIsolated ==
    /\ \A f \in Filenames \X WorkExts : exports[f] = 0
    /\ \A p \in Requests : ~req_foreign[p]

----------------------------------------------------------------------------
(* Properties of the rate limiter, checked under SpecLimiter *)

SpecLimiter == InitCategories /\ [][NextLimiter]_vars

\* timestamps of q that lie in the window ending at t, counted directly
InWindowCount(q, t) == Cardinality({i \in 1 .. Len(q) : t - q[i] < TimeWindow})

\* C7: a provider call is issued only when fewer than max_requests timestamps
\* lie in the trailing window, every admitted call leaves its timestamp (also
\* when the provider call fails), and so no window holds more than
\* max_requests provider calls.
C7_AdmittedCallsRecorded ==
    /\ (last.cat # "none" /\ last.called)
           => (InWindowCount(last.before, last.t1) < max_requests(last.cat))
    /\ (gen_pc = "idle")
           => (Len(IssuedInWindow(now)) <= InWindowCount(requests[watch], now))
    /\ Len(IssuedInWindow(now)) <= max_requests(watch)

\* the oldest timestamp of q that is still in the window ending at t
OldestInWindow(q, t) == SeqMin(SelectSeq(q, LAMBDA r : t - r < TimeWindow))

\* C8: a limiter holding fewer than max_requests timestamps in the window
\* admits; one holding max_requests rejects, and then time_until_next_request
\* is positive as long as the clock is still inside the window of the oldest
\* timestamp; once time_window seconds (exactly, or more) have passed since
\* the oldest timestamp the request is admitted.  With the image limiter this
\* is max_requests = 2, time_window = 60.
C8_SlidingWindow ==
    /\ \A c \in Categories : Len(requests[c]) <= max_requests(c)
    /\ (last.cat # "none") =>
         LET n == InWindowCount(last.before, last.t1)
         IN /\ (n < max_requests(last.cat)) => last.admitted
            /\ (n >= max_requests(last.cat)) =>
                 /\ ~last.admitted
                 /\ (/\ last.error.seconds.present
                     /\ last.t3 - OldestInWindow(last.before, last.t1) < TimeWindow)
                        => (last.error.seconds.value > 0)
            /\ (last.before # <<>> /\ last.t1 - SeqMin(last.before) >= TimeWindow)
                 => last.admitted

\* the image limiter is full of timestamps exactly time_window seconds old,
\* and the request is admitted
C8_Witness ==
    /\ last.cat = "image" /\ last.admitted
    /\ Len(last.before) = max_requests("image")
    /\ last.t1 - SeqMin(last.before) = TimeWindow

\* C9: a rejected request of any category gets an error that carries the
\* seconds until the oldest recorded timestamp leaves the window.
C9_RejectionCarriesSeconds ==
    (last.cat # "none" /\ ~last.admitted) =>
        /\ last.error.seconds.present
        /\ (last.t3 = last.t1) =>
             (last.error.seconds.value
                = TimeWindow - (last.t1 - OldestInWindow(last.before, last.t1)))

\* C29: a generation request that its category's limiter rejects issues no
\* provider call and records no timestamp: the category's list afterwards is
\* the list before without the entries that had left the window when the
\* limiter last read the clock, and the lists of the other two categories are
\* unchanged.
C29_RejectionRecordsNothing ==
    [][(last'.cat # "none" /\ ~last'.admitted) =>
          /\ requests'[last'.cat] =
                SelectSeq(requests[last'.cat], LAMBDA r : last'.t2 - r < TimeWindow)
          /\ \A k \in Categories \ {last'.cat} : requests'[k] = requests[k]
          /\ ~last'.called
          /\ gen_pc = "idle" /\ gen_pc' = "idle"
          /\ Len(issued') <= Len(issued)]_vars

\* C29 witness: a request was rejected, an entry that had left the window
\* was dropped from its list, and another category holds a timestamp
C29_Witness ==
    /\ last.cat # "none" /\ ~last.admitted /\ ~last.called
    /\ requests[last.cat] # last.before
    /\ requests[last.cat] # <<>>
    /\ \E k \in Categories \ {last.cat} : requests[k] # <<>>

----------------------------------------------------------------------------
(* Properties of the template fill, checked under SpecFill *)

SpecFill == InitTemplates /\ [][NextFill]_vars

\* the supplied variable names
SuppliedNames == {<<"t">>, <<"a">>, <<"d">>, <<"c">>}

\* the template read as a list of pieces: a doubled brace is a literal brace,
\* {name} with a non-empty name is a placeholder, any other character is
\* itself; "malformed" when a brace is neither
RECURSIVE Pieces(_)
Pieces(s) ==
    IF s = <<>> THEN <<>>
    ELSE IF Len(s) >= 2 /\ s[1] = s[2] /\ s[1] \in {"{", "}"}
    THEN <<[lit |-> s[1]]>> \o Pieces(SubSeq(s, 3, Len(s)))
    ELSE IF s[1] = "}" THEN <<[bad |-> TRUE]>>
    ELSE IF s[1] = "{"
    THEN LET j == NextBrace(s, 2)
         IN IF j <= 2 \/ s[j] = "{" THEN <<[bad |-> TRUE]>>
            ELSE <<[field |-> SubSeq(s, 2, j - 1)]>> \o Pieces(SubSeq(s, j + 1, Len(s)))
    ELSE <<[lit |-> s[1]]>> \o Pieces(Tail(s))

IsBad(piece) == "bad" \in DOMAIN piece
IsField(piece) == "field" \in DOMAIN piece

WellFormed(s) == \A k \in 1 .. Len(Pieces(s)) : ~IsBad(Pieces(s)[k])

\* the placeholder names the template mentions
Placeholders(s) == {Pieces(s)[k].field : k \in {i \in 1 .. Len(Pieces(s)) : IsField(Pieces(s)[i])}}

RECURSIVE Substituted(_, _)
Substituted(ps, variables) ==
    IF ps = <<>> THEN <<>>
    ELSE (IF IsField(ps[1]) THEN variables[ps[1].field] ELSE <<ps[1].lit>>)
             \o Substituted(Tail(ps), variables)

MissingVariable == filled.error.kind = "Template variable missing: "
FillSucceeded == filled.error.kind = "None"

----------------------------------------------------------------------------
(* Properties of the content store, checked under SpecStore *)

SpecStore == Init /\ [][NextStore]_vars

\* the lists get_projects() may return in a state of the store
Listed(table) == ProjectLists(table, "None")

\* project p is in none of them
Unlisted(table, p) == \A l \in Listed(table) : \A i \in DOMAIN l : l[i] # p

\* the step just made was a delete_project of an existing project
DeletedNow(p) ==
    /\ store_op'.op = "delete_project"
    /\ store_op'.id = p
    /\ p \in DOMAIN projects

\* what delete_project(p) must leave: the row, marked deleted, every content
\* row as it was, and p out of get_projects
SoftDeleted(p) ==
    /\ p \in DOMAIN projects'
    /\ projects'[p].status = "deleted"
    /\ content' = content
    /\ Unlisted(projects', p)

\* C16 (as claimed): delete_project is a soft delete, and whatever store
\* operations follow, the project row stays, stays 'deleted' and stays out of
\* get_projects; no store operation removes a project row.
C16_DeletedForGood ==
    [][/\ DOMAIN projects \subseteq DOMAIN projects'
       /\ \A p \in DOMAIN projects :
             /\ DeletedNow(p) => SoftDeleted(p)
             /\ projects[p].status = "deleted" =>
                   /\ projects'[p].status = "deleted"
                   /\ Unlisted(projects', p)]_vars

\* C16 (amended): delete_project leaves the row with status 'deleted', leaves
\* every content row as it was and takes the project out of get_projects; no
\* store operation removes a project row, and a deleted project stays deleted
\* and unlisted until update_project is given a status for it.
C16_SoftDelete ==
    [][/\ DOMAIN projects \subseteq DOMAIN projects'
       /\ \A p \in DOMAIN projects :
             /\ DeletedNow(p) => SoftDeleted(p)
             /\ projects[p].status = "deleted" =>
                   \/ /\ projects'[p].status = "deleted"
                      /\ Unlisted(projects', p)
                   \/ /\ store_op'.op = "update_project"
                      /\ store_op'.id = p
                      /\ "status" \in store_op'.kwargs]_vars

\* C16 witness: a project that has a content row was just deleted
C16_Witness ==
    /\ store_op.op = "delete_project"
    /\ store_op.existed
    /\ projects[store_op.id].status = "deleted"
    /\ \E c \in DOMAIN content : content[c].project_id = store_op.id

\* the store methods that write something concerning a project
ProjectWrites ==
    {"update_project", "delete_project", "add_content", "update_content",
     "delete_content"}

\* the operation just made wrote a row of, or for, an existing project
WroteFor(p) ==
    /\ store_op.op \in ProjectWrites
    /\ store_op.owner = p
    /\ p \in DOMAIN projects
    /\ store_op.op = "add_content" \/ store_op.existed
    /\ store_op.op = "update_project" => store_op.kwargs \cap ProjectFields # {}
    /\ store_op.op = "update_content" => store_op.kwargs \cap ContentFields # {}

\* C17: every store write that concerns a project stamps the updated_at of
\* the owning project with the time of the write, so that no other project
\* comes before it in get_projects.
C17_WritesStampOwner ==
    \A p \in ProjectIds :
        WroteFor(p) =>
            /\ projects[p].updated_at = db_now
            /\ \A l \in Listed(projects) : \A i, j \in DOMAIN l :
                   (l[j] = p /\ i < j) =>
                       projects[l[i]].updated_at = projects[p].updated_at

\* the store methods addressed to one row by its id
ById ==
    {"get_project", "get_template", "update_project", "delete_project",
     "update_content", "delete_content"}

\* what each of them returns when the row exists
OnSuccess(op) == IF op \in {"get_project", "get_template"} THEN "dict" ELSE "True"

\* C18: a store operation addressed to an id that has no row returns
\* something other than what it returns on success, and leaves the store
\* as it was.
C18_AbsentIdNotFound ==
    [][(store_op'.op \in ById /\ ~store_op'.existed) =>
          /\ store_ret'.kind # OnSuccess(store_op'.op)
          /\ projects' = projects
          /\ content' = content]_vars

\* C25: in every reachable store state each content row has exactly the
\* fields of its type populated and the others null: a text row has
\* content_text and neither path, an image row image_path only, an audio row
\* audio_path only.
C25_FieldsMatchType ==
    \A id \in DOMAIN content :
        LET row == content[id]
        IN /\ (row.content_text # SqlNull) = (row.type = "text")
           /\ (row.image_path # SqlNull) = (row.type = "image")
           /\ (row.audio_path # SqlNull) = (row.type = "audio")

\* C30: get_project of a project that delete_project has marked deleted
\* returns None, as for an id that has no row.
C30_DeletedIsAbsent ==
    (/\ store_op.op = "get_project"
     /\ store_op.id \in DOMAIN projects
     /\ projects[store_op.id].status = "deleted")
        => store_ret = NoneReturned

----------------------------------------------------------------------------
(* Properties of the assembler and generate_latex_from_project, checked
   under SpecAssemble *)

InitAssemble ==
    /\ InitCompile /\ InitShared /\ InitLimiter /\ InitFill /\ InitStoreAny /\ InitAsm
    /\ InitRest

SpecAssemble == InitAssemble /\ [][NextAssemble]_vars

\* a call of generate_latex_from_project has returned or raised
Generated == asm_pc = "done" /\ asm_args.method = "generate_latex_from_project"

\* it got as far as assembling the content of an existing project
Assembled ==
    /\ Generated
    /\ asm_args.project_id \in DOMAIN projects
    /\ asm_args.template_id \in DOMAIN templates

\* a fragment is a scene heading, a figure block
IsHeading(fragment) ==
    fragment.of = "" /\ Head(fragment.markup) \in {"\\chapter{", "\\section*{"}
IsFigure(fragment) == Head(fragment.markup) = "\\begin{figure}[h!]"

\* the store of the scenario: project p1 with a text item at order index 0,
\* 'Once upon a time & far away', and an image item at order index 1 whose
\* file does not exist
SeededScenario ==
    /\ DOMAIN content = {"c1", "c2"}
    /\ content["c1"].type = "text"
    /\ content["c1"].order_index = 0
    /\ content["c1"].content_text = OnceUponATime
    /\ content["c2"].type = "image"
    /\ content["c2"].order_index = 1
    /\ content["c2"].image_path = <<"/", "static/generated/lost.png">>

\* C11: for the project of the scenario, generate_latex_from_project with
\* the seeded children_storybook template returns markup and no error; the
\* content holds exactly one scene, the text with & replaced by \& and no
\* other character changed, and no figure block.
C11_SeededScenarioRenders ==
    (Generated /\ SeededScenario /\ asm_args.project_id = "p1"
        /\ asm_args.template_id = "children_storybook") =>
        /\ gen_ret.raised = "None"
        /\ gen_ret.error.kind = "None"
        /\ gen_ret.result # NoLatex
        /\ Cardinality({k \in DOMAIN latex_sections : IsHeading(latex_sections[k])}) = 1
        /\ \E k \in DOMAIN latex_sections :
              latex_sections[k].markup =
                  NoIndent \o Replace(OnceUponATime, "&", <<"\\", "&">>)
        /\ \A k \in DOMAIN latex_sections : ~IsFigure(latex_sections[k])

\* C12: generate_latex_from_project returns a (result, error) pair with
\* exactly one of the two set, whatever the store holds and whatever the
\* arguments, custom_settings left at None included; no exception escapes.
C12_PairAlwaysReturned ==
    Generated =>
        /\ gen_ret.raised = "None"
        /\ (gen_ret.result = NoLatex) # (gen_ret.error.kind = "None")

\* C13: rendering a project with a template id or type that has no template
\* row falls back to a default template: 'Template not found' is never
\* returned for an existing project.
C13_TemplateFallback ==
    (Generated /\ asm_args.project_id \in DOMAIN projects) =>
        gen_ret.error.kind # "Template not found"

\* item a comes before item b in ascending (order_index, created_at)
Precedes(a, b) ==
    \/ a.order_index < b.order_index
    \/ a.order_index = b.order_index /\ a.created_at < b.created_at

\* where the fragment made from a content item stands in the assembled
\* content, 0 when the item was not rendered
Position(id) ==
    IF \E k \in DOMAIN latex_sections : latex_sections[k].of = id
    THEN CHOOSE k \in DOMAIN latex_sections : latex_sections[k].of = id
    ELSE 0

\* C14: the fragments of the rendered items stand in the assembled content
\* in ascending (order_index, created_at) of their items, whatever the
\* items' types.
C14_RenderOrder ==
    Assembled =>
        \A i, j \in DOMAIN content_items :
            (/\ Precedes(content_items[i], content_items[j])
             /\ Position(content_items[i].id) # 0
             /\ Position(content_items[j].id) # 0) =>
                Position(content_items[i].id) < Position(content_items[j].id)

\* an image item with no path, or with a path to no file
ImageMissing(item) ==
    item.type = "image" /\ (item.image_path = SqlNull \/ item.image_path \notin FilesOnDisk)

\* the items without those
Present(items) == SelectSeq(items, LAMBDA item : ~ImageMissing(item))

\* the scenes a list of items falls into
Buckets(items) == {items[k].order_index \div 10 : k \in DOMAIN items}

\* no fragment was made from a missing image, and no fragment refers to a
\* file that does not exist
NoBrokenReference ==
    /\ \A k \in DOMAIN content_items :
          ImageMissing(content_items[k]) => Position(content_items[k].id) = 0
    /\ \A k \in DOMAIN latex_sections :
          IsFigure(latex_sections[k]) =>
              \E p \in FilesOnDisk :
                  \E h \in DOMAIN latex_sections[k].markup :
                      SubSeq(latex_sections[k].markup, h, h + Len(LStrip(p)) - 1) = LStrip(p)

OfItems(sections) == SelectSeq(sections, LAMBDA fragment : fragment.of # "")

FillVars ==
    ProjectTemplateVars(projects[asm_args.project_id], asm_args.custom_settings,
                        latex_sections)

\* a string after one pass through the escaping: the ten replacements alone,
\* or the whole of _clean_text_for_latex
EscapedOnce(text) == {EscapeFrom(text, 1), _clean_text_for_latex(text)}

\* C23: every user- or AI-supplied string that generate_latex_from_project
\* inserts into the template has passed through the escaping function
\* exactly once: the text bodies in the content, the project name used as
\* title, the author setting.
C23_EscapedExactlyOnce ==
    (Assembled /\ gen_ret.raised = "None") =>
        /\ FillVars[<<"title">>] \in EscapedOnce(projects[asm_args.project_id].name)
        /\ ("author" \in DOMAIN asm_args.custom_settings.dict) =>
              FillVars[<<"author">>] \in EscapedOnce(asm_args.custom_settings.dict["author"])
        /\ \A k \in DOMAIN latex_sections :
              \A j \in DOMAIN content_items :
                 (latex_sections[k].of = content_items[j].id
                     /\ content_items[j].type = "text")
                  => latex_sections[k].markup
                        = _clean_text_for_latex(content_items[j].content_text)

\* the orders a caller may hand the same items over in
Reorderings(items) ==
    {[k \in DOMAIN items |-> items[p[k]]] : p \in Permutations(DOMAIN items)}

\* the items of a scene, whatever their types
SceneItems(scene_content) ==
    {scene_content.text_items[k] : k \in DOMAIN scene_content.text_items}
    \cup {scene_content.image_items[k] : k \in DOMAIN scene_content.image_items}
    \cup {scene_content.audio_items[k] : k \in DOMAIN scene_content.audio_items}

\* the buckets of a grouping: the title and the set of items of each
BucketsOf(scenes) ==
    [k \in DOMAIN scenes |-> [title |-> scenes[k].title, items |-> SceneItems(scenes[k])]]

\* C24: _group_content_by_scene gives, for every order the same items are
\* handed over in, the same sequence of buckets: keys order_index // 10 in
\* ascending order, titles 'Scene {key+1}', and the same set of items in
\* each bucket.
C24_GroupingIgnoresOrder ==
    Assembled =>
        LET scenes == _group_content_by_scene(content_items)
        IN /\ \A q \in Reorderings(content_items) :
                 BucketsOf(_group_content_by_scene(q)) = BucketsOf(scenes)
           /\ \A k \in DOMAIN scenes :
                 /\ SceneItems(scenes[k]) # {}
                 /\ \A item \in SceneItems(scenes[k]) :
                       /\ scenes[k].title = <<"Scene ", ToString(SceneIndex(item) + 1)>>
                       /\ \A j \in DOMAIN scenes : \A other \in SceneItems(scenes[j]) :
                             (j < k) => SceneIndex(other) < SceneIndex(item)
           /\ UNION {SceneItems(scenes[k]) : k \in DOMAIN scenes}
                 = {content_items[k] : k \in DOMAIN content_items}

\* C24 witness: the items of two scenes were grouped, the later scene's item
\* having come first in the store
C24_Witness ==
    /\ Assembled
    /\ Len(_group_content_by_scene(content_items)) = 2
    /\ \E i, j \in DOMAIN content_items :
          /\ SceneIndex(content_items[i]) < SceneIndex(content_items[j])
          /\ content_items[j].created_at < content_items[i].created_at

----------------------------------------------------------------------------
(* Properties of create_audiobook_companion, checked under SpecCompanion *)

InitCompanion ==
    /\ InitCompile /\ InitShared /\ InitLimiter /\ InitFill /\ InitStoreTracks /\ InitAsm
    /\ InitRest

SpecCompanion == InitCompanion /\ [][NextCompanion]_vars

\* the audio rows the store holds for a project
AudioRows(project_id) ==
    {id \in DOMAIN content :
        content[id].project_id = project_id /\ content[id].type = "audio"}

\* the rows the store holds for a project
RowsOf(project_id) == {id \in DOMAIN content : content[id].project_id = project_id}

\* no compiler pass is under way, so the next step is a call of
\* create_audiobook_companion
CompanionCalled == pc \notin {"Compiling1", "Compiling2"}

\* C19: create_audiobook_companion on an existing project with zero audio
\* items returns (None, 'No audio content found in project'); the call runs no
\* probe and no compiler pass, creates no temporary directory, and leaves the
\* output directory as it was.
C19_NoAudioNoCompile ==
    [][(/\ CompanionCalled
        /\ asm_args'.project_id \in DOMAIN projects
        /\ AudioRows(asm_args'.project_id) = {})
       => /\ asm_pc' = "done"
          /\ gen_ret' = ErrorOnly("No audio content found in project")
          /\ latex_sections' = <<>>
          /\ UNCHANGED compileVars]_vars

\* C19 witness: after a companion of the second project was compiled and
\* copied, the call on the first project, which has rows but no audio row,
\* returned the error and the earlier artifact is all the directory holds
C19_Witness ==
    /\ asm_pc = "done"
    /\ asm_args.method = "create_audiobook_companion"
    /\ asm_args.project_id = "p1"
    /\ RowsOf("p1") # {}
    /\ AudioRows("p1") = {}
    /\ gen_ret = ErrorOnly("No audio content found in project")
    /\ calls = 1
    /\ passes = 2
    /\ output_dir = [n \in OutputNames |->
                        IF n = AudiobookName("project_a") THEN Complete(1) ELSE Absent]

----------------------------------------------------------------------------
(* The error payload of a failed compilation, checked under SpecCompile *)

\* the error string of a (path, error) pair as the caller reads it
Payload(error) == error.kind \o error.log

\* the stream the payload is to carry: stderr, or stdout when stderr is empty
Diagnostic(r) == IF r.stderr = "" THEN r.stdout ELSE r.stderr

\* C20 as stated: when compilation fails with a non-zero exit or a missing
\* PDF, the error payload is the compiler's stderr verbatim, or its stdout
\* verbatim when stderr is empty, with nothing added or removed, and it is
\* non-empty.
C20_StderrVerbatim ==
    ending = "compilation_failed" =>
        /\ Payload(ret.error) = Diagnostic(FinalResult)
        /\ Payload(ret.error) # ""

\* C20 amended: when compilation fails with a non-zero exit or a missing PDF,
\* no path is returned and the error payload is the fixed line
\* "LaTeX compilation failed:" followed by the final pass's stderr verbatim,
\* or by its stdout verbatim when stderr is empty; nothing else is added or
\* removed, and the payload is non-empty.
C20_DiagnosticVerbatim ==
    ending = "compilation_failed" =>
        /\ ret.path = NoPath
        /\ ret.error.kind = "LaTeX compilation failed:\n"
        /\ ret.error.log = Diagnostic(FinalResult)
        /\ Payload(ret.error) = "LaTeX compilation failed:\n" \o Diagnostic(FinalResult)
        /\ Payload(ret.error) # ""

\* C20 witness: the final pass failed with an empty stderr and a non-empty
\* stdout, and the payload carries that stdout
C20_Witness ==
    /\ ending = "compilation_failed"
    /\ FinalResult.returncode # 0
    /\ FinalResult.stderr = ""
    /\ FinalResult.stdout # ""
    /\ ret.error.log = FinalResult.stdout

----------------------------------------------------------------------------
(* Properties of _clean_text_for_latex, checked under SpecClean *)

InitTexts ==
    /\ InitCompile /\ InitShared /\ InitLimiter /\ InitFill /\ InitStore /\ InitAsm
    /\ InitCleanAny /\ InitBook /\ InitBatch

SpecClean == InitTexts /\ [][NextClean]_vars

\* the listed replacement of a character, the character itself when it has none
Replacement(ch) ==
    IF \E k \in DOMAIN latex_special_chars : latex_special_chars[k].char = ch
    THEN latex_special_chars[CHOOSE k \in DOMAIN latex_special_chars :
                                latex_special_chars[k].char = ch].replacement
    ELSE <<ch>>

\* every character of the text replaced on its own
RECURSIVE EachCharacter(_)
EachCharacter(s) ==
    IF s = <<>> THEN <<>> ELSE Replacement(Head(s)) \o EachCharacter(Tail(s))

\* the ten replacements applied one after the other in a given order
RECURSIVE EscapeIn(_, _)
EscapeIn(s, order) ==
    IF order = <<>> THEN s
    ELSE EscapeIn(Replace(s, latex_special_chars[Head(order)].char,
                          latex_special_chars[Head(order)].replacement), Tail(order))

\* the orders that differ from the dict's by one mapping moved to the front
MovedToFront(k) ==
    <<k>> \o SelectSeq([j \in DOMAIN latex_special_chars |-> j], LAMBDA j : j # k)

\* C22: _clean_text_for_latex maps every input character independently: each
\* control character is replaced by exactly its listed replacement, the
\* characters a replacement produces are not rewritten by another, and the
\* result does not depend on the order the ten mappings are applied in.
C22_CharacterwiseEscape ==
    (clean_pc = "done") =>
        /\ clean_out
             = Join(<<"\n", "\n">>, Paragraphs(Split(Quotes(EachCharacter(clean_in)))))
        /\ \A k \in DOMAIN latex_special_chars :
              EscapeIn(clean_in, MovedToFront(k)) = EscapeFrom(clean_in, 1)

----------------------------------------------------------------------------
(* The create_book route, src/app.py lines 338-421, on the DatabaseManager
   of src/app.py lines 34-218 *)

\* "INSERT INTO projects (id, name, type, settings)", lines 173-176
BookProjectRow(name, project_type, settings, at) ==
    [name |-> name, type |-> project_type, created_at |-> at, updated_at |-> at,
     settings |-> settings]

\* "INSERT INTO content (id, project_id, type, content_text, image_path,
\* audio_path, order_index)", lines 198-201
BookContentRow(project_id, content_type, content_text, image_path, audio_path, order_index) ==
    [project_id |-> project_id, type |-> content_type, content_text |-> content_text,
     image_path |-> image_path, audio_path |-> audio_path, order_index |-> order_index]

\* str(uuid.uuid4()): an id no row of the table has
NewId(table, prefix) == prefix \o ToString(Cardinality(DOMAIN table) + 1)

\* scene['text'] of scene i
SceneText(i) == <<"text of scene ", ToString(i)>>

\* f"{project_id}_scene_{i}.png" and ".mp3"
SceneFile(project_id, i, ext) == project_id \o "_scene_" \o ToString(i) \o ext

\* os.path.join(app.config['GENERATED_FOLDER'], filename)
GeneratedPath(filename) == <<"static/generated/", filename>>

\* how generate_story_structure can end: an error string, or a validated
\* story of one scene or more
StructureOutcomes == {0} \cup (1 .. MaxScenes)

\* generate_image for a scene: no image data; image data decoded and written;
\* image data that base64.b64decode or the write raises on
ImageOutcomes == {"none", "saved", "raises"}

\* generate_audio_narration for a scene: no audio data; audio data written;
\* audio data the write raises on
AudioOutcomes == {"none", "saved", "raises"}

\* lines 339-370: the story structure is asked for; an error is answered
\* with 500 before anything is stored, otherwise the project is created
create_book(generate_audio, outcome) ==
    /\ UNCHANGED notBook
    /\ book_pc = "idle"
    /\ book_data' = [generate_audio |-> generate_audio, scenes |-> outcome]
    /\ IF outcome = 0
       THEN /\ book_pc' = "error"
            /\ UNCHANGED <<projects, book_project>>
       ELSE LET project_id == NewId(projects, "p")
            IN /\ projects' = WithRow(projects, project_id,
                                      BookProjectRow(<<"title">>, "story", Dict(<<>>), db_now))
               /\ book_project' = project_id
               /\ book_pc' = "scenes"
    /\ UNCHANGED <<content, db_now, store_op, store_ret, book_i, image_made, generated>>

\* lines 373-416, one pass of the loop: the text is stored, the image is
\* generated, written and stored, the audio is generated and written. An
\* exception of b64decode or of a write leaves the route.
BookScene(image, audio) ==
    /\ UNCHANGED notBook
    /\ book_pc = "scenes"
    /\ book_i < book_data.scenes
    /\ LET text_id == NewId(content, "b")
           with_text == WithRow(content, text_id,
                                BookContentRow(book_project, "text", SceneText(book_i),
                                               SqlNull, SqlNull, book_i * 2))
           image_filename == SceneFile(book_project, book_i, ".png")
           image_id == NewId(with_text, "b")
           with_image == WithRow(with_text, image_id,
                                 BookContentRow(book_project, "image", SqlNull,
                                                GeneratedPath(image_filename), SqlNull,
                                                book_i * 2 + 1))
           audio_filename == SceneFile(book_project, book_i, ".mp3")
           narrated == book_data.generate_audio /\ image # "raises"
       IN /\ image_made' = image_made @@ (book_i :> (image # "none"))
          /\ content' = IF image = "saved" THEN with_image ELSE with_text
          /\ generated' = generated
                            \cup (IF image = "saved" THEN {image_filename} ELSE {})
                            \cup (IF narrated /\ audio = "saved" THEN {audio_filename} ELSE {})
          /\ IF image = "raises" \/ (narrated /\ audio = "raises")
             THEN book_pc' = "raised" /\ UNCHANGED book_i
             ELSE book_pc' = "scenes" /\ book_i' = book_i + 1
    /\ UNCHANGED <<projects, db_now, store_op, store_ret, book_project, book_data>>

\* lines 418-421: the loop is over, the project id and the story are returned
BookReturn ==
    /\ UNCHANGED notBook
    /\ book_pc = "scenes"
    /\ book_i = book_data.scenes
    /\ book_pc' = "returned"
    /\ UNCHANGED <<storeVars, book_project, book_data, book_i, image_made, generated>>

NextBook ==
    \/ \E generate_audio \in BOOLEAN, outcome \in StructureOutcomes :
          create_book(generate_audio, outcome)
    \/ \E image \in ImageOutcomes, audio \in AudioOutcomes : BookScene(image, audio)
    \/ BookReturn

SpecBook == Init /\ [][NextBook]_vars

\* "SELECT * FROM content WHERE project_id = ? ORDER BY order_index", the
\* rows as the dicts the grouping reads
BookItems(project_id) ==
    LET S == {c \in DOMAIN content : content[c].project_id = project_id}
        listed == CHOOSE q \in SortedSeqs(S, {ab \in S \X S :
                      content[ab[1]].order_index < content[ab[2]].order_index}) : TRUE
    IN Items(content, listed)

\* the rows of the book's project of one type at one order index
BookRows(content_type, order_index) ==
    {c \in DOMAIN content :
        /\ content[c].project_id = book_project
        /\ content[c].type = content_type
        /\ content[c].order_index = order_index}

\* C26: create_book creates a project only after the story structure was
\* generated (a failure there leaves the store unchanged); once the request
\* is over every scene i has exactly one text item at order index 2i, and an
\* image item at 2i+1 exactly when generate_image returned an image for it:
\* no failed image or audio keeps the text of that or a later scene from
\* being saved.
C26_ScenesSaved ==
    /\ (book_pc \in {"idle", "error"}) => (projects = <<>> /\ content = <<>>)
    /\ (book_pc \in {"returned", "raised"}) =>
          \A i \in 0 .. book_data.scenes - 1 :
             /\ Cardinality(BookRows("text", i * 2)) = 1
             /\ (BookRows("image", i * 2 + 1) # {})
                   <=> (i \in DOMAIN image_made /\ image_made[i])

\* the scene (N of 2N and 2N+1) an item was produced for
ProducedFor(item) == item.order_index \div 2

\* C28: with text at 2N and image at 2N+1 the items of one scene fall into
\* one bucket and the items of two scenes into two, so a book of n scenes
\* is grouped into n scenes titled Scene 1 .. Scene n.
C28_OneBucketPerScene ==
    (book_pc = "returned") =>
        LET grouped == _group_content_by_scene(BookItems(book_project))
        IN /\ Len(grouped) = book_data.scenes
           /\ \A k \in DOMAIN grouped :
                /\ grouped[k].title = <<"Scene ", ToString(k)>>
                /\ \A item \in SceneItems(grouped[k]) : ProducedFor(item) = k - 1

----------------------------------------------------------------------------
(* batch_generate_images, src/models/ai_service.py lines 521-552: one
   generate_single task per prompt, each running generate_image (lines
   155-187) on a thread of the default executor, the image limiter shared
   by the threads without a lock *)

Prompts == 1 .. NumPrompts

\* what a generate_image call came to: the (result, error) pair it returned,
\* or the exception it raised
Outcome(result, error, raised) == [result |-> result, error |-> error, raised |-> raised]
NoOutcome == Outcome("None", NoLimitError, FALSE)

ImageOf(prompt) == "image of prompt " \o ToString(prompt)
ImageFailed == [kind |-> "Failed to generate image", seconds |-> NoSeconds]
ImageError == [kind |-> "Image generation error:", seconds |-> NoSeconds]
ImageLimited(n) ==
    [kind |-> "Image generation rate limit exceeded. Try again in", seconds |-> Seconds(n)]
ValueError_Min == [kind |-> "min() arg is an empty sequence", seconds |-> NoSeconds]

\* the tasks inside "async with semaphore"
Outstanding == {i \in DOMAIN task_pc : task_pc[i] \notin {"pending", "done"}}

\* a task is over with outcome out
Completed(i, out) ==
    /\ task_pc' = [task_pc EXCEPT ![i] = "done"]
    /\ task_out' = [task_out EXCEPT ![i] = out]
    /\ out_of_order' = (out_of_order \/ \E j \in DOMAIN task_pc :
                                          j > i /\ task_pc[j] = "done")

\* lines 543-550: the results of gather are in the order of the tasks; an
\* exception becomes (None, str(exception))
Processed(out) == Outcome(IF out.raised THEN "None" ELSE out.result, out.error, FALSE)
GatheredBackwards(outs) == [k \in DOMAIN outs |-> Processed(outs[Len(outs) + 1 - k])]
Gathered(outs) == [k \in DOMAIN outs |-> Processed(outs[k])]

\* line 552: the batch starts, one task per prompt
batch_generate_images(n) ==
    /\ UNCHANGED notBatch
    /\ task_pc = <<>> /\ ~batch_ret.returned
    /\ n > 0
    /\ task_pc' = [i \in 1 .. n |-> "pending"]
    /\ task_list' = [i \in 1 .. n |-> <<>>]
    /\ task_out' = [i \in 1 .. n |-> NoOutcome]
    /\ UNCHANGED <<limiterVars, out_of_order, batch_ret, appended>>

\* lines 534-539: the tasks enter the semaphore in the order they were
\* created, while it has room, and hand generate_image to a thread
Acquire(i) ==
    /\ UNCHANGED notBatch
    /\ i \in DOMAIN task_pc /\ task_pc[i] = "pending"
    /\ \A j \in 1 .. i - 1 : task_pc[j] # "pending"
    /\ Cardinality(Outstanding) < MaxConcurrent
    /\ task_pc' = [task_pc EXCEPT ![i] = "check"]
    /\ UNCHANGED <<limiterVars, task_list, task_out, out_of_order, batch_ret, appended>>

\* can_make_request, lines 25-27: the clock is read and the list of the
\* timestamps still in the window is built ("check" in generate_image,
\* "check2" inside time_until_next_request)
BuildList(i) ==
    /\ UNCHANGED notBatch
    /\ i \in DOMAIN task_pc /\ task_pc[i] \in {"check", "check2"}
    /\ task_list' = [task_list EXCEPT ![i] = Pruned(requests["image"], now)]
    /\ task_pc' = [task_pc EXCEPT ![i] = IF task_pc[i] = "check" THEN "store" ELSE "store2"]
    /\ UNCHANGED <<limiterVars, task_out, out_of_order, batch_ret, appended>>

\* line 27, the assignment: self.requests is replaced by the list built
StoreList(i) ==
    /\ UNCHANGED notBatch
    /\ i \in DOMAIN task_pc /\ task_pc[i] \in {"store", "store2"}
    /\ requests' = [requests EXCEPT !["image"] = task_list[i]]
    /\ task_pc' = [task_pc EXCEPT ![i] = IF task_pc[i] = "store" THEN "decide" ELSE "decide2"]
    /\ UNCHANGED <<now, gen_pc, gen_cat, watch, issued, last,
                   task_list, task_out, out_of_order, batch_ret, appended>>

\* line 29 read by generate_image line 161: len(self.requests) against
\* max_requests; an admitted call goes on to the provider, a rejected one to
\* time_until_next_request
Decide(i) ==
    /\ UNCHANGED notBatch
    /\ i \in DOMAIN task_pc /\ task_pc[i] = "decide"
    /\ task_pc' = [task_pc EXCEPT ![i] =
                      IF Len(requests["image"]) < max_requests("image")
                      THEN "call" ELSE "check2"]
    /\ UNCHANGED <<limiterVars, task_list, task_out, out_of_order, batch_ret, appended>>

\* line 29 read by time_until_next_request line 37: room now means 0
\* seconds to wait, otherwise the oldest timestamp is looked up
DecideWait(i) ==
    /\ UNCHANGED notBatch
    /\ i \in DOMAIN task_pc /\ task_pc[i] = "decide2"
    /\ IF Len(requests["image"]) < max_requests("image")
       THEN /\ Completed(i, Outcome("None", ImageLimited(0), FALSE))
            /\ UNCHANGED task_list
       ELSE /\ task_pc' = [task_pc EXCEPT ![i] = "min"]
            /\ UNCHANGED <<task_list, task_out, out_of_order>>
    /\ UNCHANGED <<limiterVars, batch_ret, appended>>

\* lines 40-41 and 163: min(self.requests) raises ValueError on the empty
\* list, and the exception leaves generate_image
OldestRequest(i) ==
    /\ UNCHANGED notBatch
    /\ i \in DOMAIN task_pc /\ task_pc[i] = "min"
    /\ IF requests["image"] = <<>>
       THEN Completed(i, Outcome("None", ValueError_Min, TRUE))
       ELSE Completed(i, Outcome("None",
                ImageLimited(TimeWindow - (now - SeqMin(requests["image"]))), FALSE))
    /\ UNCHANGED <<limiterVars, task_list, batch_ret, appended>>

\* lines 166-171: the provider is called
CallProvider(i) ==
    /\ UNCHANGED notBatch
    /\ i \in DOMAIN task_pc /\ task_pc[i] = "call"
    /\ issued' = Append(issued, now)
    /\ task_pc' = [task_pc EXCEPT ![i] = "calling"]
    /\ UNCHANGED <<now, requests, gen_pc, gen_cat, watch, last,
                   task_list, task_out, out_of_order, batch_ret, appended>>

\* lines 174-187: the call is back; add_request appends time.time() unless
\* the call raised, and the pair is returned
CallReturns(i, outcome) ==
    /\ UNCHANGED notBatch
    /\ i \in DOMAIN task_pc /\ task_pc[i] = "calling"
    /\ IF outcome = "raises"
       THEN UNCHANGED <<requests, appended>>
       ELSE /\ requests' = [requests EXCEPT !["image"] = Append(@, now)]
            /\ appended' = Append(appended, now)
    /\ Completed(i, CASE outcome = "result" -> Outcome(ImageOf(i), NoLimitError, FALSE)
                      [] outcome = "empty" -> Outcome("None", ImageFailed, FALSE)
                      [] outcome = "raises" -> Outcome("None", ImageError, FALSE))
    /\ UNCHANGED <<now, gen_pc, gen_cat, watch, issued, last, task_list, batch_ret>>

\* time passes while the batch runs: a window's length at once
BatchTick(d) ==
    /\ UNCHANGED notBatch
    /\ Outstanding # {}
    /\ now + d <= MaxTime
    /\ now' = now + d
    /\ UNCHANGED <<requests, gen_pc, gen_cat, watch, issued, last, batchVars>>

\* lines 543-552: every task is over, the processed results are returned
Gather ==
    /\ UNCHANGED notBatch
    /\ task_pc # <<>> /\ ~batch_ret.returned
    /\ \A i \in DOMAIN task_pc : task_pc[i] = "done"
    /\ batch_ret' = [returned |-> TRUE, results |-> Gathered(task_out)]
    /\ UNCHANGED <<limiterVars, task_pc, task_list, task_out, out_of_order, appended>>

NextBatch ==
    \/ \E n \in Prompts : batch_generate_images(n)
    \/ \E i \in Prompts : Acquire(i)
    \/ \E i \in Prompts : BuildList(i)
    \/ \E i \in Prompts : StoreList(i)
    \/ \E i \in Prompts : Decide(i)
    \/ \E i \in Prompts : DecideWait(i)
    \/ \E i \in Prompts : OldestRequest(i)
    \/ \E i \in Prompts : CallProvider(i)
    \/ \E i \in Prompts, outcome \in {"result", "empty", "raises"} : CallReturns(i, outcome)
    \/ BatchTick(TimeWindow)
    \/ Gather

\* a service whose image limiter holds the timestamps of the image calls
\* made before the batch
InitBatchAfter(earlier) ==
    /\ now = 0
    /\ requests = [k \in Categories |-> IF k = "image" THEN earlier ELSE <<>>]
    /\ gen_pc = "idle"
    /\ gen_cat = "none"
    /\ watch = "image"
    /\ issued = earlier
    /\ last = NoCheck
    /\ task_pc = <<>>
    /\ task_list = <<>>
    /\ task_out = <<>>
    /\ out_of_order = FALSE
    /\ batch_ret = [returned |-> FALSE, results |-> <<>>]
    /\ appended = earlier

InitBatches ==
    /\ InitCompile /\ InitShared /\ InitFill /\ InitStore /\ InitAsm
    /\ InitClean /\ InitBook
    /\ \E earlier \in {<<>>, <<0>>} : InitBatchAfter(earlier)

SpecBatch == InitBatches /\ [][NextBatch]_vars

----------------------------------------------------------------------------
(* Properties of the batch, checked under SpecBatch *)

\* C21: the concurrent admission checks of the image category behave as if
\* serialized: at no time have more than max_requests provider calls been
\* issued within one window, and every timestamp add_request recorded that
\* is still in the window is still in the limiter's list.
C21_AdmissionSerialized ==
    /\ Len(IssuedInWindow(now)) <= max_requests("image")
    /\ Len(Pruned(requests["image"], now)) = Len(Pruned(appended, now))

\* C27: never more than max_concurrent generate_image calls are outstanding;
\* the list returned has one entry per prompt, entry i being what the call
\* for prompt i came to, whatever order the calls completed in; a call that
\* raised has the entry (None, message), and only an image made for prompt
\* i is found at index i.
C27_BoundedAndIndexed ==
    /\ Cardinality(Outstanding) <= MaxConcurrent
    /\ batch_ret.returned =>
          /\ DOMAIN batch_ret.results = DOMAIN task_pc
          /\ \A i \in DOMAIN task_pc :
                /\ batch_ret.results[i].result \in {"None", ImageOf(i)}
                /\ ~batch_ret.results[i].raised
                /\ batch_ret.results[i].error = task_out[i].error
                /\ task_out[i].raised => batch_ret.results[i].result = "None"
                /\ ~task_out[i].raised => batch_ret.results[i].result = task_out[i].result

\* a batch has returned whose calls did not complete in the order of the
\* prompts, with an image for one prompt and the message of an exception
\* for another
C27_Witness ==
    /\ batch_ret.returned
    /\ out_of_order
    /\ \E i \in DOMAIN task_out : task_out[i].raised
    /\ \E i \in DOMAIN task_out : task_out[i].result = ImageOf(i)

====
